---- MODULE Spec2Model ----
(***************************************************************************)
(* Model of the scheduling engine of sched_sim_rust:                       *)
(*  - GlobalEDFScheduler (lib/src/global_edf_scheduler.rs): the periodic   *)
(*    release / start / allocate / process / retire / enqueue loop;        *)
(*  - DAGSchedulerBase::schedule (lib/src/scheduler.rs) with the           *)
(*    fixed-priority sort of lib/src/fixed_priority_scheduler.rs;          *)
(*  - the NodeDataWrapper comparator of the global ready set.              *)
(* The DAG algebra (graph_extension), the processor (homogeneous/core) and *)
(* the log writers are not part of the sources at hand; they are modelled  *)
(* from their description in the specification.                            *)
(***************************************************************************)
EXTENDS Integers, Sequences, FiniteSets, TLC

VARIABLES
    mode,            \* which engine this behaviour runs: "edf", "fp", "cmp", ...
    \* ---- GlobalEDFScheduler -------------------------------------------
    dag_set,         \* GlobalEDFScheduler.dag_set (static part of the DAGs)
    pre_done_count,  \* the "pre_done_count" parameter of every node of dag_set
    processor,       \* GlobalEDFScheduler.processor: core index -> core
    current_time,    \* GlobalEDFScheduler.current_time
    managers,        \* GlobalEDFScheduler.managers
    ready_queue,     \* GlobalEDFScheduler.ready_queue (BTreeSet<NodeDataWrapper>)
    dag_set_log,     \* log.dag_set_log: per DAG release/start/finish times
    node_set_logs,   \* log.node_set_logs: per node core_id/start/finish arrays
    process_result,  \* the Vec<ProcessResult> of the current iteration
    hyper_period,    \* local hyper_period of schedule()
    pc,              \* position of schedule() in its loop body
    \* ---- DAGSchedulerBase::schedule (fixed priority) -------------------
    fp_self_dag,     \* FixedPriorityScheduler.dag, the caller's DAG
    fp_dag,          \* local dag of schedule(): the copy that gets the dummies
    fp_pre_done,     \* "pre_done_count" of the nodes of the local dag
    fp_processor,    \* local processor
    fp_ready_queue,  \* local ready_queue (VecDeque<NodeData>)
    fp_time,         \* local current_time
    fp_node_logs,    \* log: per node core_id/start_time/finish_time
    execution_order, \* local execution_order
    finish_nodes,    \* local finish_nodes of the current iteration
    fp_result,       \* the returned pair (schedule_length, execution_order)
    fp_pc,           \* position of schedule()
    \* ---- NodeDataWrapper comparator ------------------------------------
    cmp_self,        \* left operand of partial_cmp
    cmp_other,       \* right operand of partial_cmp
    cmp_result,      \* Ordering returned by cmp, "unset" before the call
    \* ---- main of the Global EDF binary --------------------------------
    result,          \* local result of main: "unset", "true" or "false"
    \* ---- federated analysis --------------------------------------------
    fed_dag_set,     \* dag_set of main: per DAG its volume, critical path
                     \* length and head period
    fed_cores,       \* number_of_cores
    fed_result,      \* the FederateResult, kind "unset" before the call
    \* ---- adjust_to_implicit_deadline ----------------------------------
    adj_input,       \* the dag_set handed to adjust_to_implicit_deadline
    adj_dag_set,     \* the dag_set as the call leaves it
    adj_pc,          \* "unused", "call", "return" or "panic"
    \* ---- get_hyper_period on its own ----------------------------------
    hp_dag_set,      \* the dag_set handed to get_hyper_period
    hp_result,       \* what the call gives, kind "unset" before the call
    \* ---- callers of schedule() ----------------------------------------
    fp_first,        \* <<>>, or <<r>> with r what the first of two calls of
                     \* schedule() returned
    \* ---- calculate_minimum_cores_and_execution_order ------------------
    dyn_deadline,    \* end_to_end_deadline of the DAG, 0 when unused
    dyn_tries,       \* schedule_result.0 of the calls made so far, by cores
    dyn_result       \* <<>>, or <<r>> with r the returned pair

edf_vars == <<dag_set, pre_done_count, processor, current_time, managers,
              ready_queue, dag_set_log, node_set_logs, process_result,
              hyper_period, pc>>

fp_vars == <<fp_self_dag, fp_dag, fp_pre_done, fp_processor, fp_ready_queue,
             fp_time, fp_node_logs, execution_order, finish_nodes, fp_result,
             fp_pc>>

cmp_vars == <<cmp_self, cmp_other, cmp_result>>

fed_vars == <<fed_dag_set, fed_cores, fed_result>>

adj_vars == <<adj_input, adj_dag_set, adj_pc>>

hp_vars == <<hp_dag_set, hp_result>>

dyn_vars == <<dyn_deadline, dyn_tries, dyn_result>>

more_vars == <<hp_vars, fp_first, dyn_vars>>

app_vars == <<result, fed_vars, adj_vars, more_vars>>

vars == <<mode, edf_vars, fp_vars, cmp_vars, app_vars>>

(***************************************************************************)
(* Bounds of the explored inputs.                                          *)
(***************************************************************************)
MaxCores == 2
MaxExec == 2
MaxOffset == 1
MaxPriority == 2
MaxCmpId == 1

Periods == {2, 3}

(***************************************************************************)
(* Option<i32>                                                             *)
(***************************************************************************)
None == [some |-> FALSE, val |-> 0]
Some(v) == [some |-> TRUE, val |-> v]

(***************************************************************************)
(* DAG algebra (graph_extension): nodes are 0..n-1, node id = node index.  *)
(***************************************************************************)
Nodes(dag) == 0 .. (dag.n - 1)

get_suc_nodes(dag, v) == {w \in Nodes(dag) : <<v, w>> \in dag.edges}

get_pre_nodes(dag, v) == {u \in Nodes(dag) : <<u, v>> \in dag.edges}

get_source_nodes(dag) == {v \in Nodes(dag) : get_pre_nodes(dag, v) = {}}

get_sink_nodes(dag) == {v \in Nodes(dag) : get_suc_nodes(dag, v) = {}}

\* smallest element of a non-empty set of integers (first of an id-ordered list)
MinOf(S) == CHOOSE x \in S : \A y \in S : x <= y

is_node_ready(dag, pdc, v) == pdc[v] = Cardinality(get_pre_nodes(dag, v))

RECURSIVE Gcd(_, _)
Gcd(a, b) == IF b = 0 THEN a ELSE Gcd(b, a % b)

\* num_integer::lcm
lcm(a, b) == a * (b \div Gcd(a, b))

\* variant: the head periods are multiplied
RECURSIVE HyperPeriodProductFrom(_, _, _)
HyperPeriodProductFrom(ds, k, acc) ==
    IF k \notin DOMAIN ds THEN acc
    ELSE HyperPeriodProductFrom(ds, k + 1, acc * ds[k].period)

RECURSIVE HyperPeriodFrom(_, _, _)
HyperPeriodFrom(ds, k, acc) ==
    IF k \notin DOMAIN ds THEN acc
    ELSE HyperPeriodFrom(ds, k + 1, lcm(acc, ds[k].period))

get_hyper_period(ds) == HyperPeriodFrom(ds, 0, 1)

(***************************************************************************)
(* Inputs: a catalogue of DAG shapes, execution times and periods.         *)
(***************************************************************************)
SingleShape == [n |-> 1, edges |-> {}]
ChainShape == [n |-> 2, edges |-> {<<0, 1>>}]
ForkShape == [n |-> 3, edges |-> {<<0, 1>>, <<0, 2>>}]
JoinShape == [n |-> 3, edges |-> {<<0, 2>>, <<1, 2>>}]
DiamondShape == [n |-> 4, edges |-> {<<0, 1>>, <<0, 2>>, <<1, 3>>, <<2, 3>>}]
ShortcutShape == [n |-> 4, edges |-> {<<0, 1>>, <<1, 2>>, <<0, 2>>, <<0, 3>>}]

Shapes == {SingleShape, ChainShape, ForkShape, JoinShape, DiamondShape,
           ShortcutShape}

\* every node runs one tick, except at most one node that runs up to MaxExec
ExecProfiles(n) ==
    {[v \in 0 .. (n - 1) |-> 1]} \cup
    {[v \in 0 .. (n - 1) |-> IF v = l THEN e ELSE 1] :
        l \in 0 .. (n - 1), e \in 2 .. MaxExec}

DagsOfShape(s) ==
    {[n |-> s.n, edges |-> s.edges, et |-> x, period |-> p, offset |-> o] :
        x \in ExecProfiles(s.n), p \in Periods, o \in 0 .. MaxOffset}

Dags == UNION {DagsOfShape(s) : s \in Shapes}

SmallDags == {d \in Dags : d.n <= 2}

DagSets ==
    {[k \in 0 .. 0 |-> d] : d \in Dags} \cup
    {[k \in 0 .. 1 |-> IF k = 0 THEN a ELSE b] : a \in Dags, b \in SmallDags} \cup
    {[k \in 0 .. 1 |-> IF k = 0 THEN a ELSE b] : a \in SmallDags, b \in Dags}

(***************************************************************************)
(* NodeData as it travels through the processor and the ready set.         *)
(***************************************************************************)
NoNode == [id |-> 0, execution_time |-> 0, period |-> None, dag_id |-> None,
           priority |-> None]

\* the node v of DAG k after initialize() stamped dag_id and period on it
EdfNode(ds, k, v) ==
    [id |-> v, execution_time |-> ds[k].et[v], period |-> Some(ds[k].period),
     dag_id |-> Some(k), priority |-> None]

(***************************************************************************)
(* NodeDataWrapper ordering (partial_cmp / cmp).                           *)
(***************************************************************************)
IntCmp(a, b) == IF a < b THEN "Less" ELSE IF a > b THEN "Greater" ELSE "Equal"

DagIdCmp(self, other) ==
    CASE self.dag_id.some /\ other.dag_id.some ->
            IntCmp(self.dag_id.val, other.dag_id.val)
      [] ~self.dag_id.some /\ ~other.dag_id.some -> "Equal"
      [] self.dag_id.some /\ ~other.dag_id.some -> "Greater"
      [] ~self.dag_id.some /\ other.dag_id.some -> "Less"

\* variant: dag_id is compared before the node id
DagIdThenIdCmp(self, other) ==
    IF DagIdCmp(self, other) = "Equal" THEN IntCmp(self.id, other.id)
    ELSE DagIdCmp(self, other)

IdThenDagIdCmp(self, other) ==
    IF IntCmp(self.id, other.id) = "Equal" THEN DagIdCmp(self, other)
    ELSE IntCmp(self.id, other.id)

\* variant: a node that has a period ranks before one that has none
partial_cmp_period_first(self, other) ==
    CASE self.period.some /\ other.period.some ->
            IF IntCmp(self.period.val, other.period.val) = "Equal"
            THEN IdThenDagIdCmp(self, other)
            ELSE IntCmp(self.period.val, other.period.val)
      [] ~self.period.some /\ ~other.period.some -> IdThenDagIdCmp(self, other)
      [] self.period.some /\ ~other.period.some -> "Less"
      [] ~self.period.some /\ other.period.some -> "Greater"

partial_cmp(self, other) ==
    CASE self.period.some /\ other.period.some ->
            IF IntCmp(self.period.val, other.period.val) = "Equal"
            THEN IdThenDagIdCmp(self, other)
            ELSE IntCmp(self.period.val, other.period.val)
      [] ~self.period.some /\ ~other.period.some -> IdThenDagIdCmp(self, other)
      [] self.period.some /\ ~other.period.some -> "Greater"
      [] ~self.period.some /\ other.period.some -> "Less"

\* BTreeSet::insert: an element comparing Equal to a member is not added
BTreeInsert(rq, x) ==
    IF \E e \in rq : partial_cmp(x, e) = "Equal" THEN rq ELSE rq \cup {x}

\* BTreeSet::pop_first: the least element under cmp
First(rq) == CHOOSE e \in rq : \A o \in rq \ {e} : partial_cmp(e, o) = "Less"

(***************************************************************************)
(* HomogeneousProcessor                                                    *)
(***************************************************************************)
IdleCore == [is_idle |-> TRUE, node |-> NoNode, remain_proc_time |-> 0]

NewProcessor(m) == [c \in 0 .. (m - 1) |-> IdleCore]

IdleCores(proc) == {c \in DOMAIN proc : proc[c].is_idle}

get_idle_core_num(proc) == Cardinality(IdleCores(proc))

\* Some(lowest idle index) or None
get_idle_core_index(proc) ==
    IF IdleCores(proc) = {} THEN None ELSE Some(MinOf(IdleCores(proc)))

allocate_specific_core(proc, c, node) ==
    [proc EXCEPT ![c] = [is_idle |-> FALSE, node |-> node,
                         remain_proc_time |-> node.execution_time]]

Continue == [done |-> FALSE, node |-> NoNode]
Done(node) == [done |-> TRUE, node |-> node]

\* one tick: the processor after the tick
ProcessCores(proc) ==
    [c \in DOMAIN proc |->
        IF proc[c].is_idle THEN proc[c]
        ELSE IF proc[c].remain_proc_time - 1 = 0 THEN IdleCore
        ELSE [proc[c] EXCEPT !.remain_proc_time = @ - 1]]

\* one tick: the events returned, by core index
ProcessEvents(proc) ==
    [c \in DOMAIN proc |->
        IF ~proc[c].is_idle /\ proc[c].remain_proc_time - 1 = 0
        THEN Done(proc[c].node) ELSE Continue]

(***************************************************************************)
(* GlobalEDFScheduler                                                      *)
(***************************************************************************)
new_basic == [release_count |-> 0, is_started |-> FALSE, is_released |-> FALSE]

EmptyDagLog == [release_time |-> <<>>, start_time |-> <<>>, finish_time |-> <<>>]
EmptyNodeLog == [core_id |-> <<>>, start_time |-> <<>>, finish_time |-> <<>>]

NoEvents(m) == [c \in 0 .. (m - 1) |-> Continue]

\* the variables of the engines a behaviour does not run
EdfUnused ==
    /\ dag_set = <<>> /\ pre_done_count = <<>> /\ processor = <<>>
    /\ current_time = 0 /\ managers = <<>> /\ ready_queue = {}
    /\ dag_set_log = <<>> /\ node_set_logs = <<>> /\ process_result = <<>>
    /\ hyper_period = 0 /\ pc = "unused"

FpUnused ==
    /\ fp_self_dag = <<>> /\ fp_dag = <<>> /\ fp_pre_done = <<>>
    /\ fp_processor = <<>> /\ fp_ready_queue = <<>> /\ fp_time = 0
    /\ fp_node_logs = <<>> /\ execution_order = <<>> /\ finish_nodes = <<>>
    /\ fp_result = <<>> /\ fp_pc = "unused"

CmpUnused == cmp_self = NoNode /\ cmp_other = NoNode /\ cmp_result = "unused"

NoFederateResult ==
    [kind |-> "unset", reason |-> "", insufficient_cores |-> 0,
     high_dedicated_cores |-> 0, low_dedicated_cores |-> 0]

FedUnused ==
    fed_dag_set = <<>> /\ fed_cores = 0 /\ fed_result = NoFederateResult

AdjUnused == adj_input = <<>> /\ adj_dag_set = <<>> /\ adj_pc = "unused"

HpUnused == hp_dag_set = <<>> /\ hp_result = [kind |-> "unset", value |-> 0]

DynUnused == dyn_deadline = 0 /\ dyn_tries = <<>> /\ dyn_result = <<>>

MoreUnused == HpUnused /\ fp_first = <<>> /\ DynUnused

AppUnused == result = "unset" /\ FedUnused /\ AdjUnused /\ MoreUnused

\* GlobalEDFScheduler::new
InitEDF ==
    /\ mode = "edf"
    /\ FpUnused /\ CmpUnused /\ AppUnused
    /\ dag_set \in DagSets
    /\ \E m \in 1 .. MaxCores :
          /\ processor = NewProcessor(m)
          /\ process_result = NoEvents(m)
    /\ pre_done_count = [k \in DOMAIN dag_set |-> [v \in Nodes(dag_set[k]) |-> 0]]
    /\ current_time = 0
    /\ managers = [k \in DOMAIN dag_set |-> new_basic]
    /\ ready_queue = {}
    /\ dag_set_log = [k \in DOMAIN dag_set |-> EmptyDagLog]
    /\ node_set_logs = [k \in DOMAIN dag_set |->
                          [v \in Nodes(dag_set[k]) |-> EmptyNodeLog]]
    /\ hyper_period = 0
    /\ pc = "new"

\* variant: the DAGs are started after the retire phase, not after the release
PhaseAfterStartLate(phase) ==
    CASE phase = "release_dag" -> "allocate_node"
      [] phase = "allocate_node" -> "process_unit_time"
      [] phase = "process_unit_time" -> "handling_nodes_finished"
      [] phase = "handling_nodes_finished" -> "start_dag"
      [] phase = "start_dag" -> "insert_ready_node"

\* the body of the loop of schedule(): the call that follows each call
PhaseAfter(phase) ==
    CASE phase = "release_dag" -> "start_dag"
      [] phase = "start_dag" -> "allocate_node"
      [] phase = "allocate_node" -> "process_unit_time"
      [] phase = "process_unit_time" -> "handling_nodes_finished"
      [] phase = "handling_nodes_finished" -> "insert_ready_node"

\* variant: the loop runs one tick too long
LoopHeadInclusive(t, hp) == IF t <= hp THEN "release_dag" ELSE "return"

\* the loop test of schedule()
LoopHead(t, hp) == IF t < hp THEN "release_dag" ELSE "return"

\* schedule(): initialize() and get_hyper_period, up to the first loop test
schedule_begin ==
    /\ mode = "edf" /\ pc = "new"
    /\ hyper_period' = get_hyper_period(dag_set)
    /\ pc' = LoopHead(current_time, get_hyper_period(dag_set))
    /\ UNCHANGED <<mode, fp_vars, cmp_vars, app_vars, dag_set, pre_done_count, processor, current_time,
                   managers, ready_queue, dag_set_log, node_set_logs,
                   process_result>>

\* variant: the offset of the DAG is ignored
IsReleaseTimeNoOffset(dag, mgr, t) == t = dag.period * mgr.release_count

IsReleaseTime(dag, mgr, t) == t = dag.offset + dag.period * mgr.release_count

release_dag ==
    /\ mode = "edf" /\ pc = "release_dag"
    /\ managers' = [k \in DOMAIN managers |->
          IF IsReleaseTime(dag_set[k], managers[k], current_time)
          THEN [managers[k] EXCEPT !.is_released = TRUE,
                                   !.release_count = @ + 1]
          ELSE managers[k]]
    /\ dag_set_log' = [k \in DOMAIN dag_set_log |->
          IF IsReleaseTime(dag_set[k], managers[k], current_time)
          THEN [dag_set_log[k] EXCEPT !.release_time = Append(@, current_time)]
          ELSE dag_set_log[k]]
    /\ pc' = PhaseAfter("release_dag")
    /\ UNCHANGED <<mode, fp_vars, cmp_vars, app_vars, dag_set, pre_done_count, processor, current_time,
                   ready_queue, node_set_logs, process_result, hyper_period>>

\* the source nodes that start_dag seeds for DAG k
SeededSources(dag) == {MinOf(get_source_nodes(dag))}

\* variant: a released DAG is started whether or not a core is idle
CanStartWithoutCore(idle_core_num, manager) ==
    ~manager.is_started /\ manager.is_released

CanStart(idle_core_num, manager) ==
    idle_core_num > 0 /\ ~manager.is_started /\ manager.is_released

\* the loop of start_dag from DAG k on; st = [idle, mgrs, rq, dlog]
RECURSIVE StartLoop(_, _)
StartLoop(k, st) ==
    IF k \notin DOMAIN st.mgrs THEN st
    ELSE IF CanStart(st.idle, st.mgrs[k])
    THEN StartLoop(k + 1,
            [idle |-> st.idle - 1,
             mgrs |-> [st.mgrs EXCEPT ![k].is_started = TRUE],
             rq |-> LET Ins[S \in SUBSET SeededSources(dag_set[k])] ==
                        IF S = {} THEN st.rq
                        ELSE LET v == MinOf(S)
                             IN BTreeInsert(Ins[S \ {v}], EdfNode(dag_set, k, v))
                    IN Ins[SeededSources(dag_set[k])],
             dlog |-> [st.dlog EXCEPT ![k].start_time = Append(@, current_time)]])
    ELSE StartLoop(k + 1, st)

start_dag ==
    /\ mode = "edf" /\ pc = "start_dag"
    /\ LET r == StartLoop(0, [idle |-> get_idle_core_num(processor),
                              mgrs |-> managers, rq |-> ready_queue,
                              dlog |-> dag_set_log])
       IN /\ managers' = r.mgrs
          /\ ready_queue' = r.rq
          /\ dag_set_log' = r.dlog
    /\ pc' = PhaseAfter("start_dag")
    /\ UNCHANGED <<mode, fp_vars, cmp_vars, app_vars, dag_set, pre_done_count, processor, current_time,
                   node_set_logs, process_result, hyper_period>>

write_allocating_node(nlog, node, core, t) ==
    [nlog EXCEPT ![node.dag_id.val][node.id] =
        [@ EXCEPT !.core_id = Append(@, core), !.start_time = Append(@, t)]]

write_finishing_node(nlog, node, t) ==
    [nlog EXCEPT ![node.dag_id.val][node.id].finish_time = Append(@, t)]

\* variant: with no idle core the node goes to core 0
AllocTargetAnyCore(proc) ==
    IF IdleCores(proc) = {} THEN Some(0) ELSE get_idle_core_index(proc)

\* the core the next ready node goes to, or None to leave the loop
AllocTarget(proc) == get_idle_core_index(proc)

\* the node taken from the ready set
PopFirst(rq) == First(rq)

\* variant: a single allocation per tick instead of the while loop
AllocOnce(st) ==
    IF st.rq = {} THEN st
    ELSE IF ~AllocTarget(st.proc).some THEN st
    ELSE LET c == AllocTarget(st.proc).val
             node == PopFirst(st.rq)
         IN [rq |-> st.rq \ {node},
             proc |-> allocate_specific_core(st.proc, c, node),
             nlog |-> write_allocating_node(st.nlog, node, c, current_time)]

\* the loop of allocate_node; st = [rq, proc, nlog]
RECURSIVE AllocLoop(_)
AllocLoop(st) ==
    IF st.rq = {} THEN st
    ELSE IF ~AllocTarget(st.proc).some THEN st
    ELSE LET c == AllocTarget(st.proc).val
             node == PopFirst(st.rq)
         IN AllocLoop([rq |-> st.rq \ {node},
                       proc |-> allocate_specific_core(st.proc, c, node),
                       nlog |-> write_allocating_node(st.nlog, node, c,
                                                      current_time)])

\* variant: the ready set has no order, any ready node may be taken first
allocate_node_unordered ==
    /\ mode = "edf" /\ pc = "allocate_node"
    /\ \E first \in ready_queue \cup {NoNode} :
          LET st == [rq |-> ready_queue, proc |-> processor,
                     nlog |-> node_set_logs]
              r == IF ready_queue = {} \/ ~AllocTarget(processor).some
                   THEN st
                   ELSE AllocLoop(
                          [rq |-> ready_queue \ {first},
                           proc |-> allocate_specific_core(processor,
                                       AllocTarget(processor).val, first),
                           nlog |-> write_allocating_node(node_set_logs, first,
                                       AllocTarget(processor).val, current_time)])
          IN /\ first \in ready_queue \/ ready_queue = {}
             /\ ready_queue' = r.rq
             /\ processor' = r.proc
             /\ node_set_logs' = r.nlog
    /\ pc' = PhaseAfter("allocate_node")
    /\ UNCHANGED <<mode, fp_vars, cmp_vars, app_vars, dag_set, pre_done_count, current_time, managers,
                   dag_set_log, process_result, hyper_period>>

allocate_node ==
    /\ mode = "edf" /\ pc = "allocate_node"
    /\ LET r == AllocLoop([rq |-> ready_queue, proc |-> processor,
                           nlog |-> node_set_logs])
       IN /\ ready_queue' = r.rq
          /\ processor' = r.proc
          /\ node_set_logs' = r.nlog
    /\ pc' = PhaseAfter("allocate_node")
    /\ UNCHANGED <<mode, fp_vars, cmp_vars, app_vars, dag_set, pre_done_count, current_time, managers,
                   dag_set_log, process_result, hyper_period>>

process_unit_time ==
    /\ mode = "edf" /\ pc = "process_unit_time"
    /\ current_time' = current_time + 1
    /\ processor' = ProcessCores(processor)
    /\ process_result' = ProcessEvents(processor)
    /\ pc' = PhaseAfter("process_unit_time")
    /\ UNCHANGED <<mode, fp_vars, cmp_vars, app_vars, dag_set, pre_done_count, managers, ready_queue,
                   dag_set_log, node_set_logs, hyper_period>>

\* variant: the DAG stays released after its sink has finished
reset_state_started_only(manager) == [manager EXCEPT !.is_started = FALSE]

reset_state(manager) == [manager EXCEPT !.is_started = FALSE, !.is_released = FALSE]

reset_pre_done_count(dag) == [v \in Nodes(dag) |-> 0]

increment_successors(dag, pdc, v) ==
    [w \in Nodes(dag) |-> IF w \in get_suc_nodes(dag, v) THEN pdc[w] + 1 ELSE pdc[w]]

\* the loop of handling_nodes_finished from core c on; st = [pdc, mgrs, dlog, nlog]
RECURSIVE RetireLoop(_, _)
RetireLoop(c, st) ==
    IF c \notin DOMAIN process_result THEN st
    ELSE IF ~process_result[c].done THEN RetireLoop(c + 1, st)
    ELSE LET node == process_result[c].node
             k == node.dag_id.val
             nl == write_finishing_node(st.nlog, node, current_time)
         IN IF get_suc_nodes(dag_set[k], node.id) = {}
            THEN RetireLoop(c + 1,
                   [pdc |-> [st.pdc EXCEPT ![k] = reset_pre_done_count(dag_set[k])],
                    mgrs |-> [st.mgrs EXCEPT ![k] = reset_state(@)],
                    dlog |-> [st.dlog EXCEPT ![k].finish_time =
                                                Append(@, current_time)],
                    nlog |-> nl])
            ELSE RetireLoop(c + 1,
                   [pdc |-> [st.pdc EXCEPT ![k] =
                                increment_successors(dag_set[k], @, node.id)],
                    mgrs |-> st.mgrs, dlog |-> st.dlog, nlog |-> nl])

handling_nodes_finished ==
    /\ mode = "edf" /\ pc = "handling_nodes_finished"
    /\ LET r == RetireLoop(0, [pdc |-> pre_done_count, mgrs |-> managers,
                               dlog |-> dag_set_log, nlog |-> node_set_logs])
       IN /\ pre_done_count' = r.pdc
          /\ managers' = r.mgrs
          /\ dag_set_log' = r.dlog
          /\ node_set_logs' = r.nlog
    /\ pc' = PhaseAfter("handling_nodes_finished")
    /\ UNCHANGED <<mode, fp_vars, cmp_vars, app_vars, dag_set, processor, current_time, ready_queue,
                   process_result, hyper_period>>

\* variant: every successor of a Done node is inserted, ready or not
ReadySuccessorsNoCheck(c) ==
    IF ~process_result[c].done THEN {}
    ELSE LET node == process_result[c].node
             k == node.dag_id.val
         IN {EdfNode(dag_set, k, w) : w \in get_suc_nodes(dag_set[k], node.id)}

\* the successors that insert_ready_node adds for the Done node of core c
ReadySuccessors(c) ==
    IF ~process_result[c].done THEN {}
    ELSE LET node == process_result[c].node
             k == node.dag_id.val
         IN {EdfNode(dag_set, k, w) :
               w \in {x \in get_suc_nodes(dag_set[k], node.id) :
                        is_node_ready(dag_set[k], pre_done_count[k], x)}}

insert_ready_node ==
    /\ mode = "edf" /\ pc = "insert_ready_node"
    /\ ready_queue' = ready_queue \cup
                      UNION {ReadySuccessors(c) : c \in DOMAIN process_result}
    /\ pc' = LoopHead(current_time, hyper_period)
    /\ UNCHANGED <<mode, fp_vars, cmp_vars, app_vars, dag_set, pre_done_count, processor, current_time, managers,
                   dag_set_log, node_set_logs, process_result, hyper_period>>

\* the worst response time of the log of one DAG: the largest
\* finish_time - release_time over its logged jobs, 0 without a finished job
worst_response_time(dlog) ==
    LET n == IF Len(dlog.finish_time) < Len(dlog.release_time)
             THEN Len(dlog.finish_time) ELSE Len(dlog.release_time)
        R == {dlog.finish_time[i] - dlog.release_time[i] : i \in 1 .. n}
    IN IF R = {} THEN 0 ELSE CHOOSE x \in R : \A y \in R : y <= x

\* variant: the result is overwritten by the comparison of each DAG
RECURSIVE CheckLoopNoAccumulate(_, _)
CheckLoopNoAccumulate(k, res) ==
    IF k \notin DOMAIN dag_set THEN res
    ELSE CheckLoopNoAccumulate(k + 1,
             worst_response_time(dag_set_log[k]) <= dag_set[k].period)

\* main: the loop over dag_set with its early exit
RECURSIVE CheckLoop(_, _)
CheckLoop(k, res) ==
    IF k \notin DOMAIN dag_set THEN res
    ELSE IF ~res THEN res
    ELSE CheckLoop(k + 1,
             res /\ worst_response_time(dag_set_log[k]) <= dag_set[k].period)

\* main, after schedule() has returned: the feasibility check of the log
main_check ==
    /\ mode = "edf" /\ pc = "return" /\ result = "unset"
    /\ result' = IF CheckLoop(0, TRUE) THEN "true" ELSE "false"
    /\ UNCHANGED <<mode, edf_vars, fp_vars, cmp_vars, fed_vars, adj_vars,
                   more_vars>>

NextEDF ==
    \/ main_check
    \/ schedule_begin
    \/ release_dag
    \/ start_dag
    \/ allocate_node
    \/ process_unit_time
    \/ handling_nodes_finished
    \/ insert_ready_node

SpecEDF == InitEDF /\ [][NextEDF]_vars

(***************************************************************************)
(* DAGSchedulerBase::schedule with FixedPriorityScheduler::sort_ready_queue *)
(***************************************************************************)
DUMMY_EXECUTION_TIME == 1

MissingPriority == 999

PriorityValues == {None} \cup {Some(p) : p \in 0 .. MaxPriority}

FpDagsOfShape(s) ==
    {[n |-> s.n, edges |-> s.edges, et |-> x, priority |-> pr] :
        x \in ExecProfiles(s.n), pr \in [0 .. (s.n - 1) -> PriorityValues]}

FpDags == UNION {FpDagsOfShape(s) : s \in Shapes}

FpNode(dag, v) ==
    [id |-> v, execution_time |-> dag.et[v], period |-> None, dag_id |-> None,
     priority |-> dag.priority[v]]

\* a new node of index n that precedes every source; it has no priority
add_dummy_source_node(dag) ==
    [n |-> dag.n + 1,
     edges |-> dag.edges \cup {<<dag.n, v>> : v \in get_source_nodes(dag)},
     et |-> [v \in 0 .. dag.n |-> IF v = dag.n THEN DUMMY_EXECUTION_TIME
                                  ELSE dag.et[v]],
     priority |-> [v \in 0 .. dag.n |-> IF v = dag.n THEN None
                                        ELSE dag.priority[v]]]

\* a new node of index n that follows every sink; it has no priority
add_dummy_sink_node(dag) ==
    [n |-> dag.n + 1,
     edges |-> dag.edges \cup {<<v, dag.n>> : v \in get_sink_nodes(dag)},
     et |-> [v \in 0 .. dag.n |-> IF v = dag.n THEN DUMMY_EXECUTION_TIME
                                  ELSE dag.et[v]],
     priority |-> [v \in 0 .. dag.n |-> IF v = dag.n THEN None
                                        ELSE dag.priority[v]]]

\* removes the node of the highest index with its edges
remove_last_node(dag) ==
    [n |-> dag.n - 1,
     edges |-> {e \in dag.edges : e[1] # dag.n - 1 /\ e[2] # dag.n - 1},
     et |-> [v \in 0 .. (dag.n - 2) |-> dag.et[v]],
     priority |-> [v \in 0 .. (dag.n - 2) |-> dag.priority[v]]]

source_node_i == fp_self_dag.n
sink_node_i == fp_self_dag.n + 1

\* FixedPriorityScheduler::new
InitFP ==
    /\ mode = "fp"
    /\ EdfUnused /\ CmpUnused /\ AppUnused
    /\ fp_self_dag \in FpDags
    /\ fp_dag = fp_self_dag
    /\ fp_pre_done = [v \in Nodes(fp_self_dag) |-> 0]
    /\ \E m \in 1 .. MaxCores : fp_processor = NewProcessor(m)
    /\ fp_ready_queue = <<>>
    /\ fp_time = 0
    /\ fp_node_logs = [v \in Nodes(fp_self_dag) |-> EmptyNodeLog]
    /\ execution_order = <<>>
    /\ finish_nodes = <<>>
    /\ fp_result = <<>>
    /\ fp_pc = "new"

\* variant: schedule() works on the DAG that the call before it left behind
get_dag_in_place ==
    [dag |-> fp_dag, pdc |-> [v \in Nodes(fp_dag) |-> fp_pre_done[v]]]

\* self.dag.clone(): the DAG of the scheduler, no node with a pre_done_count
get_dag == [dag |-> fp_self_dag, pdc |-> [v \in Nodes(fp_self_dag) |-> 0]]

\* schedule(), up to the loop: the dummies and the seed of the ready queue
fp_schedule_begin ==
    /\ mode = "fp" /\ fp_pc = "new"
    /\ LET g == get_dag
           d == add_dummy_sink_node(add_dummy_source_node(g.dag))
       IN /\ fp_dag' = d
          /\ fp_pre_done' = [v \in Nodes(d) |->
                                IF v \in DOMAIN g.pdc THEN g.pdc[v] ELSE 0]
          /\ fp_ready_queue' = <<FpNode(d, g.dag.n)>>
    /\ fp_pc' = "allocate"
    /\ UNCHANGED <<mode, edf_vars, cmp_vars, app_vars, fp_self_dag, fp_processor, fp_time,
                   fp_node_logs, execution_order, finish_nodes, fp_result>>

PriorityKey(node) ==
    IF node.priority.some THEN node.priority.val ELSE MissingPriority

\* x goes behind every element whose key is not greater (the sort is stable)
RECURSIVE InsertByKey(_, _)
InsertByKey(q, x) ==
    IF q = <<>> THEN <<x>>
    ELSE IF PriorityKey(Head(q)) <= PriorityKey(x)
    THEN <<Head(q)>> \o InsertByKey(Tail(q), x)
    ELSE <<x>> \o q

RECURSIVE StableSort(_)
StableSort(q) ==
    IF q = <<>> THEN <<>>
    ELSE InsertByKey(StableSort(SubSeq(q, 1, Len(q) - 1)), q[Len(q)])

\* variant: the ready queue is left in arrival order
keep_ready_queue(q) == q

\* x goes behind every element of a smaller key, or an equal key and smaller id
RECURSIVE InsertByKeyAndId(_, _)
InsertByKeyAndId(q, x) ==
    IF q = <<>> THEN <<x>>
    ELSE IF \/ PriorityKey(Head(q)) < PriorityKey(x)
            \/ PriorityKey(Head(q)) = PriorityKey(x) /\ Head(q).id < x.id
    THEN <<Head(q)>> \o InsertByKeyAndId(Tail(q), x)
    ELSE <<x>> \o q

\* variant: the ready queue is sorted by priority and then by node id
RECURSIVE sort_by_priority_and_id(_)
sort_by_priority_and_id(q) ==
    IF q = <<>> THEN <<>>
    ELSE InsertByKeyAndId(sort_by_priority_and_id(SubSeq(q, 1, Len(q) - 1)),
                          q[Len(q)])

sort_ready_queue(q) == StableSort(q)

IsDummy(id) == id = source_node_i \/ id = sink_node_i

fp_write_allocating_node(nlog, node, core, t) ==
    [nlog EXCEPT ![node.id] =
        [@ EXCEPT !.core_id = Append(@, core), !.start_time = Append(@, t)]]

fp_write_finishing_node(nlog, node, t) ==
    [nlog EXCEPT ![node.id].finish_time = Append(@, t)]

\* variant: the time of the loop is logged as it is
RawLogTime(t) == t

\* the time written to the log: without the tick of the dummy source
LogTime(t) == t - DUMMY_EXECUTION_TIME

\* the allocation loop of one iteration; st = [rq, proc, nlog, order]
RECURSIVE FpAllocLoop(_)
FpAllocLoop(st) ==
    IF ~get_idle_core_index(st.proc).some THEN st
    ELSE IF st.rq = <<>> THEN st
    ELSE LET c == get_idle_core_index(st.proc).val
             node_d == Head(st.rq)
         IN FpAllocLoop(
              [rq |-> Tail(st.rq),
               proc |-> allocate_specific_core(st.proc, c, node_d),
               nlog |-> IF ~IsDummy(node_d.id)
                        THEN fp_write_allocating_node(st.nlog, node_d, c,
                                                 LogTime(fp_time))
                        ELSE st.nlog,
               order |-> Append(st.order, node_d.id)])

\* loop body, first part: sort the ready queue and fill the idle cores
fp_allocate ==
    /\ mode = "fp" /\ fp_pc = "allocate"
    /\ LET r == FpAllocLoop([rq |-> sort_ready_queue(fp_ready_queue),
                             proc |-> fp_processor, nlog |-> fp_node_logs,
                             order |-> execution_order])
       IN /\ fp_ready_queue' = r.rq
          /\ fp_processor' = r.proc
          /\ fp_node_logs' = r.nlog
          /\ execution_order' = r.order
    /\ fp_pc' = "process"
    /\ UNCHANGED <<mode, edf_vars, cmp_vars, app_vars, fp_self_dag, fp_dag, fp_pre_done,
                   fp_time, finish_nodes, fp_result>>

AnyDone(events) == \E c \in DOMAIN events : events[c].done

\* process() once, then again until some core reports Done
RECURSIVE ProcessUntilDone(_, _)
ProcessUntilDone(proc, t) ==
    IF AnyDone(ProcessEvents(proc))
    THEN [proc |-> ProcessCores(proc), t |-> t + 1, events |-> ProcessEvents(proc)]
    ELSE ProcessUntilDone(ProcessCores(proc), t + 1)

\* the Done nodes of the events from core c on, by core index
RECURSIVE DoneNodesFrom(_, _)
DoneNodesFrom(events, c) ==
    IF c \notin DOMAIN events THEN <<>>
    ELSE IF events[c].done THEN <<events[c].node.id>> \o DoneNodesFrom(events, c + 1)
    ELSE DoneNodesFrom(events, c + 1)

RECURSIVE LogFinished(_, _, _, _)
LogFinished(nlog, events, c, t) ==
    IF c \notin DOMAIN events THEN nlog
    ELSE IF events[c].done /\ ~IsDummy(events[c].node.id)
    THEN LogFinished(fp_write_finishing_node(nlog, events[c].node, t),
                     events, c + 1, t)
    ELSE LogFinished(nlog, events, c + 1, t)

\* loop body, second part: advance time to the next completion.  With no core
\* running the inner while loop of the program never ends: the step is disabled.
fp_process ==
    /\ mode = "fp" /\ fp_pc = "process"
    /\ \E c \in DOMAIN fp_processor : ~fp_processor[c].is_idle
    /\ LET r == ProcessUntilDone(fp_processor, fp_time)
       IN /\ fp_processor' = r.proc
          /\ fp_time' = r.t
          /\ finish_nodes' = DoneNodesFrom(r.events, 0)
          /\ fp_node_logs' = LogFinished(fp_node_logs, r.events, 0,
                                         r.t - DUMMY_EXECUTION_TIME)
    /\ fp_pc' = "retire"
    /\ UNCHANGED <<mode, edf_vars, cmp_vars, app_vars, fp_self_dag, fp_dag, fp_pre_done,
                   fp_ready_queue, execution_order, fp_result>>

\* variant: every successor of a finished node is enqueued at once
RECURSIVE PushSuccessorsNoCheck(_, _)
PushSuccessorsNoCheck(S, st) ==
    IF S = {} THEN st
    ELSE LET w == MinOf(S)
         IN PushSuccessorsNoCheck(S \ {w},
              [pdc |-> [st.pdc EXCEPT ![w] = @ + 1],
               rq |-> Append(st.rq, FpNode(fp_dag, w))])

\* the successors S of one finished node, by ascending index; st = [pdc, rq]
RECURSIVE PushReadySuccessors(_, _)
PushReadySuccessors(S, st) ==
    IF S = {} THEN st
    ELSE LET w == MinOf(S)
             pdc2 == [st.pdc EXCEPT ![w] = @ + 1]
         IN PushReadySuccessors(S \ {w},
              [pdc |-> pdc2,
               rq |-> IF is_node_ready(fp_dag, pdc2, w)
                      THEN Append(st.rq, FpNode(fp_dag, w)) ELSE st.rq])

RECURSIVE FpRetireLoop(_, _)
FpRetireLoop(i, st) ==
    IF i > Len(finish_nodes) THEN st
    ELSE FpRetireLoop(i + 1,
           PushReadySuccessors(get_suc_nodes(fp_dag, finish_nodes[i]), st))

\* variant: the loop is left as soon as a single node finishes
IsSingleNodeFinished == Len(finish_nodes) = 1

\* the break test of the loop
IsScheduleFinished ==
    Len(finish_nodes) = 1 /\ get_suc_nodes(fp_dag, finish_nodes[1]) = {}

\* loop body, last part: leave the loop or enqueue the newly ready nodes
fp_retire ==
    /\ mode = "fp" /\ fp_pc = "retire"
    /\ IF IsScheduleFinished
       THEN /\ fp_pc' = "epilogue"
            /\ UNCHANGED <<fp_pre_done, fp_ready_queue>>
       ELSE /\ LET r == FpRetireLoop(1, [pdc |-> fp_pre_done,
                                         rq |-> fp_ready_queue])
               IN /\ fp_pre_done' = r.pdc
                  /\ fp_ready_queue' = r.rq
            /\ fp_pc' = "allocate"
    /\ UNCHANGED <<mode, edf_vars, cmp_vars, app_vars, fp_self_dag, fp_dag, fp_processor,
                   fp_time, fp_node_logs, execution_order, finish_nodes,
                   fp_result>>

\* variant: the last element is left in place
keep_back(q) == q

pop_back(q) == IF q = <<>> THEN q ELSE SubSeq(q, 1, Len(q) - 1)
pop_front(q) == IF q = <<>> THEN q ELSE Tail(q)

\* after the loop: drop the dummies and return (schedule_length, execution_order)
fp_epilogue ==
    /\ mode = "fp" /\ fp_pc = "epilogue"
    /\ fp_dag' = remove_last_node(remove_last_node(fp_dag))
    /\ execution_order' = pop_front(pop_back(execution_order))
    /\ fp_result' = [schedule_length |-> fp_time - DUMMY_EXECUTION_TIME * 2,
                     execution_order |-> pop_front(pop_back(execution_order))]
    /\ fp_pc' = "return"
    /\ UNCHANGED <<mode, edf_vars, cmp_vars, app_vars, fp_self_dag, fp_pre_done,
                   fp_processor, fp_ready_queue, fp_time, fp_node_logs,
                   finish_nodes>>

NextFP ==
    \/ fp_schedule_begin
    \/ fp_allocate
    \/ fp_process
    \/ fp_retire
    \/ fp_epilogue

SpecFP == InitFP /\ [][NextFP]_vars

\* the caller calls schedule() of the same scheduler a second time: the locals
\* of schedule() are new, the log of the scheduler is the one set_log left
fp_schedule_again ==
    /\ mode = "fp" /\ fp_pc = "return" /\ fp_first = <<>>
    /\ fp_first' = <<fp_result>>
    /\ fp_processor' = NewProcessor(Cardinality(DOMAIN fp_processor))
    /\ fp_ready_queue' = <<>>
    /\ fp_time' = 0
    /\ execution_order' = <<>>
    /\ finish_nodes' = <<>>
    /\ fp_result' = <<>>
    /\ fp_pc' = "new"
    /\ UNCHANGED <<mode, edf_vars, cmp_vars, result, fed_vars, adj_vars, hp_vars,
                   dyn_vars, fp_self_dag, fp_dag, fp_pre_done, fp_node_logs>>

SpecFPTwice == InitFP /\ [][NextFP \/ fp_schedule_again]_vars

(***************************************************************************)
(* The federated analysis.  A DAG enters by the three quantities that the  *)
(* analysis reads: volume, critical path length and head period.           *)
(***************************************************************************)
MaxVolume == 4
MaxFedPeriod == 3
MaxFedCores == 3

\* the DAGs of the tests of outputs_result.rs
HighUtilizationDag == [volume |-> 14, critical_path |-> 8, period |-> 10]
LowUtilizationDag == [volume |-> 10, critical_path |-> 7, period |-> 30]
PeriodExceedingDag == [volume |-> 20, critical_path |-> 20, period |-> 10]

TestDags == {HighUtilizationDag, LowUtilizationDag, PeriodExceedingDag}

\* a DAG of utilization > 1 whose critical path fills the period has no
\* Melani bound (the divisor is 0) and is left out
SmallFedDags ==
    {d \in [volume : 1 .. MaxVolume, critical_path : 1 .. MaxVolume,
            period : 1 .. MaxFedPeriod] :
        /\ d.critical_path <= d.volume
        /\ ~(d.volume > d.period /\ d.critical_path = d.period)}

FedDags == SmallFedDags \cup TestDags

FedDagSets ==
    {<<a>> : a \in FedDags}
        \cup {<<a, b>> : a \in FedDags, b \in FedDags}
        \cup {<<a, b, c>> : a \in TestDags, b \in TestDags, c \in TestDags}

FedCoreCounts == (1 .. MaxFedCores) \cup {40}

CriticalPathReason == "The critical path length is greater than end_to_end_deadline."
HighReason == "Insufficient number of cores for high-utilization tasks."
LowReason == "Insufficient number of cores for low-utilization tasks."

Unschedulable(why, n) ==
    [kind |-> "Unschedulable", reason |-> why, insufficient_cores |-> n,
     high_dedicated_cores |-> 0, low_dedicated_cores |-> 0]

Schedulable(high, low) ==
    [kind |-> "Schedulable", reason |-> "", insufficient_cores |-> 0,
     high_dedicated_cores |-> high, low_dedicated_cores |-> low]

CeilDiv(a, b) == (a + b - 1) \div b

\* utilization > 1
IsHighUtilization(d) == d.volume > d.period

\* variant: the quotient is rounded down
MinimumCoresFloor(d) ==
    (d.volume - d.critical_path) \div (d.period - d.critical_path)

\* the dedicated cores of a high-utilization DAG
MinimumCores(d) ==
    CeilDiv(d.volume - d.critical_path, d.period - d.critical_path)

\* variant: the shortage is that of all high-utilization DAGs together
RECURSIVE DedicateCoresTotal(_, _, _)
DedicateCoresTotal(ds, i, st) ==
    IF i > Len(ds) THEN st
    ELSE IF ~IsHighUtilization(ds[i]) THEN DedicateCoresTotal(ds, i + 1, st)
    ELSE IF MinimumCores(ds[i]) > st.remaining
    THEN DedicateCoresTotal(ds, i + 1,
            [remaining |-> 0,
             short |-> st.short + MinimumCores(ds[i]) - st.remaining])
    ELSE DedicateCoresTotal(ds, i + 1,
            [remaining |-> st.remaining - MinimumCores(ds[i]), short |-> st.short])

\* the high-utilization DAGs from index i on take their cores from the
\* remaining ones; st = [remaining, short]
RECURSIVE DedicateCores(_, _, _)
DedicateCores(ds, i, st) ==
    IF i > Len(ds) \/ st.short > 0 THEN st
    ELSE IF ~IsHighUtilization(ds[i]) THEN DedicateCores(ds, i + 1, st)
    ELSE IF MinimumCores(ds[i]) > st.remaining
    THEN [remaining |-> st.remaining,
          short |-> MinimumCores(ds[i]) - st.remaining]
    ELSE DedicateCores(ds, i + 1,
            [remaining |-> st.remaining - MinimumCores(ds[i]), short |-> 0])

RECURSIVE PeriodProduct(_, _)
PeriodProduct(ds, i) ==
    IF i > Len(ds) THEN 1 ELSE ds[i].period * PeriodProduct(ds, i + 1)

\* the sum of the utilizations of the low-utilization DAGs, as the numerator
\* over the denominator PeriodProduct(ds, 1)
RECURSIVE LowUtilizationNumerator(_, _)
LowUtilizationNumerator(ds, i) ==
    IF i > Len(ds) THEN 0
    ELSE (IF IsHighUtilization(ds[i]) THEN 0
          ELSE ds[i].volume * (PeriodProduct(ds, 1) \div ds[i].period))
         + LowUtilizationNumerator(ds, i + 1)

\* variant: the low-utilization DAGs must use exactly half of the cores
LowTasksFitExact(ds, low_cores) ==
    2 * LowUtilizationNumerator(ds, 1) = low_cores * PeriodProduct(ds, 1)

\* variant: the low-utilization DAGs may fill the remaining cores completely
LowTasksFitFull(ds, low_cores) ==
    LowUtilizationNumerator(ds, 1) <= low_cores * PeriodProduct(ds, 1)

\* low_util_sum <= low_cores / 2
LowTasksFit(ds, low_cores) ==
    2 * LowUtilizationNumerator(ds, 1) <= low_cores * PeriodProduct(ds, 1)

\* variant: the critical path of a DAG is checked when its turn comes, after
\* the cores of the DAGs before it have been dedicated
RECURSIVE SinglePass(_, _, _, _)
SinglePass(ds, i, remaining, number_of_cores) ==
    IF i > Len(ds)
    THEN IF LowTasksFit(ds, remaining)
         THEN Schedulable(number_of_cores - remaining, remaining)
         ELSE Unschedulable(LowReason,
                CeilDiv(2 * LowUtilizationNumerator(ds, 1),
                        PeriodProduct(ds, 1)) - remaining)
    ELSE IF ds[i].critical_path > ds[i].period
    THEN Unschedulable(CriticalPathReason, 0)
    ELSE IF ~IsHighUtilization(ds[i])
    THEN SinglePass(ds, i + 1, remaining, number_of_cores)
    ELSE IF MinimumCores(ds[i]) > remaining
    THEN Unschedulable(HighReason, MinimumCores(ds[i]) - remaining)
    ELSE SinglePass(ds, i + 1, remaining - MinimumCores(ds[i]), number_of_cores)

federated_single_pass(ds, number_of_cores) ==
    SinglePass(ds, 1, number_of_cores, number_of_cores)

federated(ds, number_of_cores) ==
    IF \E i \in 1 .. Len(ds) : ds[i].critical_path > ds[i].period
    THEN Unschedulable(CriticalPathReason, 0)
    ELSE LET st == DedicateCores(ds, 1, [remaining |-> number_of_cores,
                                         short |-> 0])
         IN IF st.short > 0 THEN Unschedulable(HighReason, st.short)
            ELSE IF LowTasksFit(ds, st.remaining)
            THEN Schedulable(number_of_cores - st.remaining, st.remaining)
            ELSE Unschedulable(LowReason,
                   CeilDiv(2 * LowUtilizationNumerator(ds, 1),
                           PeriodProduct(ds, 1)) - st.remaining)

InitFed ==
    /\ mode = "fed"
    /\ EdfUnused /\ FpUnused /\ CmpUnused /\ result = "unset" /\ AdjUnused
    /\ MoreUnused
    /\ fed_dag_set \in FedDagSets
    /\ fed_cores \in FedCoreCounts
    /\ fed_result = NoFederateResult

\* main of the federated binary: the call of federated
fed_main ==
    /\ mode = "fed" /\ fed_result.kind = "unset"
    /\ fed_result' = federated(fed_dag_set, fed_cores)
    /\ UNCHANGED <<mode, edf_vars, fp_vars, cmp_vars, result, fed_dag_set,
                   fed_cores, adj_vars, more_vars>>

NextFed == fed_main

SpecFed == InitFed /\ [][NextFed]_vars

(***************************************************************************)
(* util.rs: adjust_to_implicit_deadline.  A DAG is its shape and, per node, *)
(* the params "period" and "end_to_end_deadline".                          *)
(***************************************************************************)
MaxAdjNodes == 3

\* some node of N has no predecessor in N, and so on for the rest of N
RECURSIVE HasTopologicalOrder(_, _)
HasTopologicalOrder(N, E) ==
    \/ N = {}
    \/ \E v \in N :
          /\ \A u \in N : <<u, v>> \notin E
          /\ HasTopologicalOrder(N \ {v}, E)

AdjShapes(n) ==
    {[n |-> n, edges |-> E] :
        E \in {F \in SUBSET {<<a, b>> \in (0 .. (n - 1)) \X (0 .. (n - 1)) : a # b} :
                  HasTopologicalOrder(0 .. (n - 1), F)}}

\* no node has the key, or the node `at` has it with value `val`
ParamOn(n, at, val) == [v \in 0 .. (n - 1) |-> IF v = at THEN Some(val) ELSE None]

\* the DAGs of a shape: a period on at most one source node, an
\* end_to_end_deadline on at most one node
AdjDagsOfShape(s) ==
    {[n |-> s.n, edges |-> s.edges, period |-> p, end_to_end_deadline |-> d] :
        p \in {ParamOn(s.n, s.n, 0)} \cup
              {ParamOn(s.n, v, x) : v \in get_source_nodes(s), x \in Periods},
        d \in {ParamOn(s.n, s.n, 0)} \cup
              {ParamOn(s.n, v, x) : v \in 0 .. (s.n - 1), x \in Periods}}

AdjDags(max_nodes) ==
    UNION {AdjDagsOfShape(s) : s \in UNION {AdjShapes(n) : n \in 1 .. max_nodes}}

\* one DAG, or two DAGs of one node
AdjDagSets(max_nodes) ==
    {<<d>> : d \in AdjDags(max_nodes)} \cup
    {<<a, b>> : a \in AdjDags(1), b \in AdjDags(1)}

\* the first element of a list of Option values that is Some
FirstParam(dag, key, S) ==
    LET having == {v \in S : dag[key][v].some}
    IN IF having = {} THEN None ELSE dag[key][MinOf(having)]

\* the period of the first source node that has one
get_head_period(dag) == FirstParam(dag, "period", get_source_nodes(dag))

\* the end_to_end_deadline of the first node that has one
get_end_to_end_deadline(dag) == FirstParam(dag, "end_to_end_deadline", Nodes(dag))

\* the node has no such key yet
add_param(dag, node_i, key, value) == [dag EXCEPT ![key][node_i] = Some(value)]

\* the node has the key
update_param(dag, node_i, key, value) == [dag EXCEPT ![key][node_i] = Some(value)]

Panicked == [panic |-> TRUE, dag |-> [n |-> 0, edges |-> {}]]

Adjusted(dag) == [panic |-> FALSE, dag |-> dag]

\* .find(..).unwrap() panics when no sink node has the key
enforce_equal_period_and_deadline(dag, period, end_to_end_deadline) ==
    IF end_to_end_deadline # period
    THEN LET found == {v \in get_sink_nodes(dag) : dag.end_to_end_deadline[v].some}
         IN IF found = {} THEN Panicked
            ELSE Adjusted(update_param(dag, MinOf(found), "end_to_end_deadline",
                                       period))
    ELSE Adjusted(dag)

\* the body of the loop for one DAG
AdjustDag(dag) ==
    LET period == get_head_period(dag)
        end_to_end_deadline == get_end_to_end_deadline(dag)
    IN IF period.some /\ end_to_end_deadline.some
       THEN enforce_equal_period_and_deadline(dag, period.val,
                                              end_to_end_deadline.val)
       ELSE IF end_to_end_deadline.some
       THEN Adjusted(add_param(dag, 0, "period", end_to_end_deadline.val))
       ELSE IF period.some
       THEN Adjusted(add_param(dag, dag.n - 1, "end_to_end_deadline", period.val))
       ELSE Panicked

\* the loop from the DAG of index i on; a panic leaves the DAGs from there on
\* as they were
RECURSIVE adjust_to_implicit_deadline(_, _)
adjust_to_implicit_deadline(ds, i) ==
    IF i > Len(ds) THEN [pc |-> "return", dag_set |-> ds]
    ELSE LET r == AdjustDag(ds[i])
         IN IF r.panic THEN [pc |-> "panic", dag_set |-> ds]
            ELSE adjust_to_implicit_deadline([ds EXCEPT ![i] = r.dag], i + 1)

InitAdj ==
    /\ mode = "adj"
    /\ EdfUnused /\ FpUnused /\ CmpUnused /\ result = "unset" /\ FedUnused
    /\ MoreUnused
    /\ adj_input \in AdjDagSets(MaxAdjNodes)
    /\ adj_dag_set = adj_input
    /\ adj_pc = "call"

adjust_main ==
    /\ mode = "adj" /\ adj_pc = "call"
    /\ LET r == adjust_to_implicit_deadline(adj_dag_set, 1)
       IN adj_dag_set' = r.dag_set /\ adj_pc' = r.pc
    /\ UNCHANGED <<mode, edf_vars, fp_vars, cmp_vars, result, fed_vars, adj_input,
                   more_vars>>

SpecAdj == InitAdj /\ [][adjust_main]_vars

(***************************************************************************)
(* util.rs: get_hyper_period on DAG sets of arbitrary head periods.  The   *)
(* result is an i32: a product beyond i32::MAX panics in a build with      *)
(* overflow checks and wraps around in a build without.                    *)
(***************************************************************************)
MaxHyperPeriod == 6

I32Max == 2147483647

\* the DAG set of the periods of a sequence; of a DAG only the head period
\* matters
DagSetOfPeriods(q) == [k \in 0 .. (Len(q) - 1) |-> [period |-> q[k + 1]]]

\* short sequences of small periods, the periods of
\* test_get_hyper_period_normal and sets with two periods whose least common
\* multiple is beyond i32::MAX
HyperPeriodInputs ==
    {<<a>> : a \in 1 .. MaxHyperPeriod} \cup
    {<<a, b>> : a \in 1 .. MaxHyperPeriod, b \in 1 .. MaxHyperPeriod} \cup
    {<<a, b, c>> : a \in 1 .. MaxHyperPeriod, b \in 1 .. MaxHyperPeriod,
                   c \in 1 .. MaxHyperPeriod} \cup
    {<<10, 20, 30, 40>>, <<46341, 46342>>, <<3, 46341, 46342>>,
     <<46341, 46342, 3>>}

\* some multiplication of the loop from index k on exceeds i32::MAX
RECURSIVE HyperPeriodOverflows(_, _, _)
HyperPeriodOverflows(ds, k, acc) ==
    IF k \notin DOMAIN ds THEN FALSE
    ELSE LET factor == ds[k].period \div Gcd(acc, ds[k].period)
         IN \/ acc > I32Max \div factor
            \/ HyperPeriodOverflows(ds, k + 1, lcm(acc, ds[k].period))

InitHp ==
    /\ mode = "hp"
    /\ EdfUnused /\ FpUnused /\ CmpUnused /\ result = "unset"
    /\ FedUnused /\ AdjUnused /\ fp_first = <<>> /\ DynUnused
    /\ \E q \in HyperPeriodInputs : hp_dag_set = DagSetOfPeriods(q)
    /\ hp_result = [kind |-> "unset", value |-> 0]

hp_main ==
    /\ mode = "hp" /\ hp_result.kind = "unset"
    /\ IF HyperPeriodOverflows(hp_dag_set, 0, 1)
       THEN hp_result' \in {[kind |-> "panic", value |-> 0],
                            [kind |-> "wrapped", value |-> 0]}
       ELSE hp_result' = [kind |-> "value", value |-> get_hyper_period(hp_dag_set)]
    /\ UNCHANGED <<mode, edf_vars, fp_vars, cmp_vars, result, fed_vars, adj_vars,
                   hp_dag_set, fp_first, dyn_vars>>

SpecHp == InitHp /\ [][hp_main]_vars

(***************************************************************************)
(* dynfed.rs: calculate_minimum_cores_and_execution_order.  Each call of   *)
(* the fixed-priority scheduler is a run of schedule() on a new processor. *)
(***************************************************************************)
MaxDeadline == 3
MaxDynCores == 4

\* create_sample_dag of dynfed.rs (node 0 before nodes 1, 2, 3), with
\* end_to_end_deadline 100
SampleDag ==
    [n |-> 4, edges |-> {<<0, 1>>, <<0, 2>>, <<0, 3>>},
     et |-> [v \in 0 .. 3 |-> CASE v = 0 -> 52 [] v = 1 -> 40 [] OTHER -> 30],
     priority |-> [v \in 0 .. 3 |->
                      CASE v = 2 -> Some(2) [] v = 3 -> Some(1) [] OTHER -> Some(0)]]

DynInputs ==
    {[dag |-> d, end_to_end_deadline |-> e] :
        d \in UNION {FpDagsOfShape(s) : s \in {SingleShape, ChainShape, ForkShape,
                                               JoinShape, SampleDag}},
        e \in 1 .. MaxDeadline}
    \cup {[dag |-> SampleDag, end_to_end_deadline |-> 100]}

\* the sum of the execution times of the nodes from v on
RECURSIVE VolumeFrom(_, _)
VolumeFrom(dag, v) ==
    IF v >= dag.n THEN 0 ELSE dag.et[v] + VolumeFrom(dag, v + 1)

get_volume(dag) == VolumeFrom(dag, 0)

\* (volume as f32 / end_to_end_deadline as f32).ceil() as usize
FirstCores(dag, deadline) == CeilDiv(get_volume(dag), deadline)

\* variant: a schedule that ends at the deadline counts as too long
ReachesDeadline(schedule_length, deadline) == schedule_length >= deadline

\* the condition of the while loop
ExceedsDeadline(schedule_length, deadline) == schedule_length > deadline

\* up to the first call of the scheduler
InitDyn ==
    /\ mode = "fp"
    /\ EdfUnused /\ CmpUnused /\ result = "unset" /\ FedUnused /\ AdjUnused
    /\ HpUnused /\ fp_first = <<>>
    /\ \E i \in DynInputs :
          /\ fp_self_dag = i.dag
          /\ dyn_deadline = i.end_to_end_deadline
          /\ fp_processor = NewProcessor(FirstCores(i.dag, i.end_to_end_deadline))
    /\ dyn_tries = <<>>
    /\ dyn_result = <<>>
    /\ fp_dag = fp_self_dag
    /\ fp_pre_done = [v \in Nodes(fp_self_dag) |-> 0]
    /\ fp_ready_queue = <<>>
    /\ fp_time = 0
    /\ fp_node_logs = [v \in Nodes(fp_self_dag) |-> EmptyNodeLog]
    /\ execution_order = <<>>
    /\ finish_nodes = <<>>
    /\ fp_result = <<>>
    /\ fp_pc = "new"

\* the test of the while loop on the result of a call: one more core and
\* another call, or the return of (minimum_cores, schedule_result.1).  The
\* number of cores of the explored runs is at most MaxDynCores.
dyn_loop ==
    /\ mode = "fp" /\ fp_pc = "return" /\ dyn_deadline > 0 /\ dyn_result = <<>>
    /\ LET minimum_cores == Cardinality(DOMAIN fp_processor)
       IN /\ dyn_tries' = Append(dyn_tries,
                             [cores |-> minimum_cores,
                              schedule_length |-> fp_result.schedule_length])
          /\ IF ExceedsDeadline(fp_result.schedule_length, dyn_deadline)
             THEN /\ minimum_cores < MaxDynCores
                  /\ fp_processor' = NewProcessor(minimum_cores + 1)
                  /\ fp_dag' = fp_self_dag
                  /\ fp_pre_done' = [v \in Nodes(fp_self_dag) |-> 0]
                  /\ fp_ready_queue' = <<>>
                  /\ fp_time' = 0
                  /\ fp_node_logs' = [v \in Nodes(fp_self_dag) |-> EmptyNodeLog]
                  /\ execution_order' = <<>>
                  /\ finish_nodes' = <<>>
                  /\ fp_result' = <<>>
                  /\ fp_pc' = "new"
                  /\ UNCHANGED dyn_result
             ELSE /\ dyn_result' = <<[minimum_cores |-> minimum_cores,
                                     execution_order |-> fp_result.execution_order]>>
                  /\ UNCHANGED <<fp_processor, fp_dag, fp_pre_done, fp_ready_queue,
                                 fp_time, fp_node_logs, execution_order,
                                 finish_nodes, fp_result, fp_pc>>
    /\ UNCHANGED <<mode, edf_vars, cmp_vars, result, fed_vars, adj_vars, hp_vars,
                   fp_first, fp_self_dag, dyn_deadline>>

SpecDyn == InitDyn /\ [][NextFP \/ dyn_loop]_vars

(***************************************************************************)
(* The comparator of the ready set on arbitrary operands.                  *)
(***************************************************************************)
OptionalPeriods == {None} \cup {Some(p) : p \in Periods}
OptionalDagIds == {None} \cup {Some(k) : k \in 0 .. 1}

Wrappers ==
    {[id |-> i, execution_time |-> 1, period |-> p, dag_id |-> k,
      priority |-> None] :
        i \in 0 .. MaxCmpId, p \in OptionalPeriods, k \in OptionalDagIds}

InitCmp ==
    /\ mode = "cmp"
    /\ EdfUnused /\ FpUnused /\ AppUnused
    /\ cmp_self \in Wrappers
    /\ cmp_other \in Wrappers
    /\ cmp_result = "unset"

\* Ord::cmp
cmp ==
    /\ mode = "cmp" /\ cmp_result = "unset"
    /\ cmp_result' = partial_cmp(cmp_self, cmp_other)
    /\ UNCHANGED <<mode, edf_vars, fp_vars, app_vars, cmp_self, cmp_other>>

NextCmp == cmp

SpecCmp == InitCmp /\ [][NextCmp]_vars

(***************************************************************************)
(* Both schedulers: a behaviour runs one of them.                          *)
(***************************************************************************)
Init == InitEDF \/ InitFP

Next == NextEDF \/ NextFP

Spec == Init /\ [][Next]_vars

(***************************************************************************)
(* Properties of GlobalEDFScheduler                                        *)
(***************************************************************************)
IsEdf == mode = "edf"
IsFp == mode = "fp"

NLog(k, v) == node_set_logs[k][v]

SingleSink(dag) == Cardinality(get_sink_nodes(dag)) = 1

\* the cores that run node v of DAG k
CoresRunning(k, v) ==
    {c \in DOMAIN processor :
        ~processor[c].is_idle /\ processor[c].node = EdfNode(dag_set, k, v)}

EdfLogEntries ==
    UNION {UNION {{[key |-> <<k, v, i>>, core |-> NLog(k, v).core_id[i],
                    from |-> NLog(k, v).start_time[i],
                    to |-> IF i <= Len(NLog(k, v).finish_time)
                           THEN NLog(k, v).finish_time[i]
                           ELSE current_time + 1] :
                       i \in 1 .. Len(NLog(k, v).start_time)} :
                  v \in Nodes(dag_set[k])} : k \in DOMAIN dag_set}

FpLogEntries ==
    UNION {{[key |-> <<v, i>>, core |-> fp_node_logs[v].core_id[i],
             from |-> fp_node_logs[v].start_time[i],
             to |-> IF i <= Len(fp_node_logs[v].finish_time)
                    THEN fp_node_logs[v].finish_time[i]
                    ELSE fp_time] :
                i \in 1 .. Len(fp_node_logs[v].start_time)} :
           v \in DOMAIN fp_node_logs}

Overlap(a, b) == a.core = b.core /\ a.from < b.to /\ b.from < a.to

NoOverlap(E) == \A a \in E : \A b \in E : a.key # b.key => ~Overlap(a, b)

\* a core that runs a node in two successive states runs the same node
KeepsNode(old, new) ==
    \A c \in DOMAIN old :
        (~old[c].is_idle /\ ~new[c].is_idle) =>
            /\ new[c].node = old[c].node
            /\ new[c].remain_proc_time <= old[c].remain_proc_time

\* C2: on every core the logged execution intervals are pairwise disjoint (at
\* most one node per tick and core), in both schedulers, and a step places a
\* node only on a core that was idle.
C2_CoreExclusivity ==
    /\ [](NoOverlap(EdfLogEntries) /\ NoOverlap(FpLogEntries))
    /\ [][KeepsNode(processor, processor')
          /\ KeepsNode(fp_processor, fp_processor')]_vars

\* a fixed-priority run in which a core was handed from one node to the next
\* at the tick the first one finished, while another node was waiting
C2_Witness ==
    /\ IsFp
    /\ \E a \in FpLogEntries : \E b \in FpLogEntries :
          a.key # b.key /\ a.core = b.core /\ a.to = b.from
    /\ Len(fp_ready_queue) > 0

(***************************************************************************)
(* Work conservation                                                       *)
(***************************************************************************)
\* C3: after the allocate phase of a tick the ready set is never non-empty
\* while a core is idle, and an allocate phase that begins with a ready node
\* and an idle core allocates a ready node at that tick.
C3_WorkConservation ==
    /\ [](IsEdf /\ pc = "process_unit_time" =>
             ~(ready_queue # {} /\ IdleCores(processor) # {}))
    /\ [][(IsEdf /\ pc = "allocate_node" /\ ready_queue # {}
             /\ IdleCores(processor) # {}) =>
          \E n \in ready_queue :
             /\ n \notin ready_queue'
             /\ \E c \in IdleCores(processor) :
                   /\ ~processor'[c].is_idle
                   /\ processor'[c].node = n
                   /\ Len(node_set_logs'[n.dag_id.val][n.id].start_time)
                        = Len(NLog(n.dag_id.val, n.id).start_time) + 1]_vars

\* the allocate phase has filled two cores that were idle, and a node is left
\* in the ready set
C3_Witness ==
    /\ IsEdf /\ pc = "process_unit_time"
    /\ ready_queue # {}
    /\ Cardinality({e \in EdfLogEntries : e.from = current_time}) >= 2

(***************************************************************************)
(* Hyper-period termination                                                *)
(***************************************************************************)
DividesAll(h, ds) == \A k \in DOMAIN ds : h % ds[k].period = 0

\* the least positive integer that every head period divides
LeastCommonMultiple(ds) ==
    CHOOSE h \in 1 .. 36 :
        DividesAll(h, ds) /\ \A g \in 1 .. (h - 1) : ~DividesAll(g, ds)

PhaseRank ==
    CASE pc = "new" -> 6
      [] pc = "release_dag" -> 5
      [] pc = "start_dag" -> 4
      [] pc = "allocate_node" -> 3
      [] pc = "process_unit_time" -> 2
      [] pc = "handling_nodes_finished" -> 7
      [] pc = "insert_ready_node" -> 6
      [] OTHER -> 0

\* the number of steps schedule() can still take, at most
Variant == 6 * (LeastCommonMultiple(dag_set) - current_time) + PhaseRank

\* C4: schedule() terminates (no state before the return is stuck and every
\* step decreases a measure that is never negative), it returns current_time =
\* lcm of the head periods, and current_time changes only in
\* process_unit_time, by exactly one.
C4_HyperPeriodTermination ==
    /\ [](IsEdf => /\ Variant >= 0
                   /\ pc # "return" => ENABLED NextEDF
                   /\ pc = "return" => current_time = LeastCommonMultiple(dag_set))
    /\ [][(IsEdf /\ pc # "return") =>
            /\ Variant' < Variant
            /\ pc = "process_unit_time" => current_time' = current_time + 1
            /\ pc # "process_unit_time" => current_time' = current_time]_vars

\* schedule() has returned while a node is still running and a DAG that was
\* released never finished
C4_Witness ==
    /\ IsEdf /\ pc = "return"
    /\ \E c \in DOMAIN processor : ~processor[c].is_idle
    /\ \E k \in DOMAIN dag_set :
          Len(dag_set_log[k].release_time) > Len(dag_set_log[k].finish_time)

(***************************************************************************)
(* Non-preemption                                                          *)
(***************************************************************************)
\* the time that passes in a step of either scheduler
Elapsed(t_old, t_new) == t_new - t_old

\* a running core keeps its node and works it off tick by tick; it becomes
\* idle exactly when the remaining time has elapsed
RunsToCompletion(old, new, dt) ==
    \A c \in DOMAIN old :
        ~old[c].is_idle =>
            \/ /\ ~new[c].is_idle
               /\ new[c].node = old[c].node
               /\ new[c].remain_proc_time = old[c].remain_proc_time - dt
               /\ new[c].remain_proc_time >= 1
            \/ /\ new[c].is_idle
               /\ old[c].remain_proc_time = dt

\* C5: every logged node instance has finish_time - start_time =
\* execution_time, and a core that runs a node runs it until it completes, in
\* the GlobalEDF loop and in the intra-DAG list scheduler.
C5_NonPreemption ==
    /\ [](/\ IsEdf =>
               \A k \in DOMAIN dag_set : \A v \in Nodes(dag_set[k]) :
                  \A i \in 1 .. Len(NLog(k, v).finish_time) :
                     /\ i <= Len(NLog(k, v).start_time)
                     /\ NLog(k, v).finish_time[i] - NLog(k, v).start_time[i]
                           = dag_set[k].et[v]
          /\ IsFp =>
               \A v \in DOMAIN fp_node_logs :
                  \A i \in 1 .. Len(fp_node_logs[v].finish_time) :
                     /\ i <= Len(fp_node_logs[v].start_time)
                     /\ fp_node_logs[v].finish_time[i]
                           - fp_node_logs[v].start_time[i] = fp_self_dag.et[v])
    /\ [][/\ RunsToCompletion(processor, processor',
                              Elapsed(current_time, current_time'))
          /\ RunsToCompletion(fp_processor, fp_processor',
                              Elapsed(fp_time, fp_time'))]_vars

\* an EDF run in which a node of execution time 2 has finished while a node
\* was waiting in the ready set for its core
C5_Witness ==
    /\ IsEdf
    /\ ready_queue # {}
    /\ \E k \in DOMAIN dag_set : \E v \in Nodes(dag_set[k]) :
          /\ dag_set[k].et[v] >= 2
          /\ Len(NLog(k, v).finish_time) >= 1

(***************************************************************************)
(* One allocation per node and job                                         *)
(***************************************************************************)
DagStarts(k) ==
    {dag_set_log[k].start_time[j] : j \in 1 .. Len(dag_set_log[k].start_time)}

\* between two successive allocations of a node its DAG has been started again
StartedAgainBetween(k, v) ==
    \A i \in 1 .. (Len(NLog(k, v).start_time) - 1) :
        \E s \in DagStarts(k) :
            NLog(k, v).start_time[i] < s /\ s <= NLog(k, v).start_time[i + 1]

\* C6: a node runs on at most one core at a time and is allocated at most
\* once per job: two successive allocations of a node are separated by a new
\* start of its DAG.
C6_AllocatedOncePerJob ==
    IsEdf =>
        \A k \in DOMAIN dag_set : \A v \in Nodes(dag_set[k]) :
            /\ Cardinality(CoresRunning(k, v)) <= 1
            /\ StartedAgainBetween(k, v)

\* the same statement for the DAGs that have exactly one sink
AllocatedOncePerJobSingleSink ==
    IsEdf =>
        \A k \in DOMAIN dag_set : \A v \in Nodes(dag_set[k]) :
            SingleSink(dag_set[k]) =>
                /\ Cardinality(CoresRunning(k, v)) <= 1
                /\ StartedAgainBetween(k, v)

(***************************************************************************)
(* Dispatch order                                                          *)
(***************************************************************************)
TupleLess(x, y) ==
    \/ x.period.val < y.period.val
    \/ x.period.val = y.period.val /\ x.id < y.id
    \/ x.period.val = y.period.val /\ x.id = y.id /\ x.dag_id.val < y.dag_id.val

\* the core on which node a was placed by the step
CoreOfNew(a) ==
    CHOOSE c \in IdleCores(processor) :
        ~processor'[c].is_idle /\ processor'[c].node = a

\* C7: the ready set is totally ordered by (period, node_id, dag_id), the
\* comparator agrees with that order, and the allocate phase takes the least
\* nodes of the ready set, in ascending order onto the lowest idle cores, so
\* that no allocated node is greater than a node left in the ready set.
C7_DispatchOrder ==
    /\ [](IsEdf =>
            \A x \in ready_queue : \A y \in ready_queue :
                x # y => /\ TupleLess(x, y) \/ TupleLess(y, x)
                         /\ partial_cmp(x, y) = "Less" <=> TupleLess(x, y)
                         /\ partial_cmp(x, y) = "Greater" <=> TupleLess(y, x))
    /\ [][(IsEdf /\ pc = "allocate_node") =>
            LET taken == ready_queue \ ready_queue'
                used == {c \in IdleCores(processor) : ~processor'[c].is_idle}
            IN /\ ready_queue' \subseteq ready_queue
               /\ \A a \in taken : \A r \in ready_queue' : TupleLess(a, r)
               /\ Cardinality(used) = Cardinality(taken)
               /\ \A c \in used : \A d \in IdleCores(processor) \ used : c < d
               /\ \A a \in taken : \E c \in used : processor'[c].node = a
               /\ \A a \in taken : \A b \in taken :
                     TupleLess(a, b) => CoreOfNew(a) < CoreOfNew(b)]_vars

\* a node has just been allocated while a node of the same period, with a
\* greater node id but a smaller dag id, is left in the ready set
C7_Witness ==
    /\ IsEdf /\ pc = "process_unit_time"
    /\ \E c \in DOMAIN processor : \E r \in ready_queue :
          /\ ~processor[c].is_idle
          /\ processor[c].remain_proc_time = processor[c].node.execution_time
          /\ processor[c].node.period = r.period
          /\ processor[c].node.id < r.id
          /\ processor[c].node.dag_id.val > r.dag_id.val

(***************************************************************************)
(* Release timing                                                          *)
(***************************************************************************)
\* the last tick whose release phase has been carried out
LastReleasePhase ==
    IF pc \in {"start_dag", "allocate_node", "process_unit_time"}
    THEN current_time ELSE current_time - 1

\* the release instants offset + period * j, j >= 0, up to tick t
ReleaseInstants(dag, t) ==
    {x \in 0 .. t : x >= dag.offset /\ (x - dag.offset) % dag.period = 0}

SeqRange(q) == {q[i] : i \in 1 .. Len(q)}

StrictlyIncreasing(q) == \A i \in 1 .. (Len(q) - 1) : q[i] < q[i + 1]

\* C9: the release times logged for DAG k are exactly the ticks
\* head_offset + head_period * j (j >= 0) reached so far, each logged once,
\* and release_count[k] is their number.
C9_ReleaseTiming ==
    IsEdf =>
        \A k \in DOMAIN dag_set :
            /\ SeqRange(dag_set_log[k].release_time)
                  = ReleaseInstants(dag_set[k], LastReleasePhase)
            /\ StrictlyIncreasing(dag_set_log[k].release_time)
            /\ managers[k].release_count = Len(dag_set_log[k].release_time)
            /\ \A t \in SeqRange(dag_set_log[k].release_time) :
                  t < LeastCommonMultiple(dag_set)

\* a DAG with a non-zero offset has been released a second time although its
\* first job has not finished
C9_Witness ==
    /\ IsEdf
    /\ \E k \in DOMAIN dag_set :
          /\ dag_set[k].offset > 0
          /\ Len(dag_set_log[k].release_time) >= 2
          /\ Len(dag_set_log[k].finish_time) = 0
          /\ managers[k].is_started

(***************************************************************************)
(* The comparator and nodes without a period                               *)
(***************************************************************************)
DagKey(x) == IF x.dag_id.some THEN x.dag_id.val + 1 ELSE 0

\* the order of the pairs (node id, dag id), an absent dag id coming first
IdDagOrder(x, y) ==
    IF x.id < y.id \/ (x.id = y.id /\ DagKey(x) < DagKey(y)) THEN "Less"
    ELSE IF x.id = y.id /\ DagKey(x) = DagKey(y) THEN "Equal"
    ELSE "Greater"

\* the node that a ready set holding the two operands hands out first
DispatchedFirst == First(BTreeInsert(BTreeInsert({}, cmp_self), cmp_other))

BothLackPeriodByIdDag ==
    (~cmp_self.period.some /\ ~cmp_other.period.some) =>
        cmp_result = IdDagOrder(cmp_self, cmp_other)

Key999(v) == IF fp_dag.priority[v].some THEN fp_dag.priority[v].val ELSE 999

ReadyIds == {fp_ready_queue[i].id : i \in 1 .. Len(fp_ready_queue)}

\* the i-th lowest idle core
IdleCoreOfRank(i) ==
    CHOOSE c \in IdleCores(fp_processor) :
        Cardinality({d \in IdleCores(fp_processor) : d < c}) = i - 1

\* the nodes that the step appends to the allocation order
NewlyAllocated ==
    SubSeq(execution_order', Len(execution_order) + 1, Len(execution_order'))

AllocationStepInOrder ==
    LET new == NewlyAllocated
    IN /\ SubSeq(execution_order', 1, Len(execution_order)) = execution_order
       /\ Len(new) <= Cardinality(IdleCores(fp_processor))
       /\ \A i \in 1 .. Len(new) :
             /\ new[i] \in ReadyIds
             /\ \A r \in ReadyIds \ {new[j] : j \in 1 .. (i - 1)} :
                   Key999(new[i]) <= Key999(r)
             /\ ~fp_processor'[IdleCoreOfRank(i)].is_idle
             /\ fp_processor'[IdleCoreOfRank(i)].node.id = new[i]
       /\ {fp_ready_queue'[i].id : i \in 1 .. Len(fp_ready_queue')}
             = ReadyIds \ {new[j] : j \in 1 .. Len(new)}

\* the returned order holds every node once, by allocation time and then core
ReturnedInAllocationOrder ==
    LET eo == fp_result.execution_order
        nl(i) == fp_node_logs[eo[i]]
    IN /\ Len(eo) = fp_self_dag.n
       /\ {eo[i] : i \in 1 .. Len(eo)} = Nodes(fp_self_dag)
       /\ \A i \in 1 .. Len(eo) : Len(nl(i).start_time) = 1
       /\ \A i \in 1 .. Len(eo) : \A j \in 1 .. Len(eo) :
             i < j =>
                \/ nl(i).start_time[1] < nl(j).start_time[1]
                \/ /\ nl(i).start_time[1] = nl(j).start_time[1]
                   /\ nl(i).core_id[1] < nl(j).core_id[1]

\* C10: every node that an allocation step takes has the smallest priority
\* (999 when missing) of the nodes ready at that moment and goes to the
\* lowest idle core; the returned execution_order is the allocation order of
\* the nodes of the DAG.
C10_ListOrder ==
    /\ [][(IsFp /\ fp_pc = "allocate") => AllocationStepInOrder]_vars
    /\ [][(IsFp /\ fp_pc = "epilogue") =>
            execution_order = <<source_node_i>> \o execution_order'
                                  \o <<sink_node_i>>]_vars
    /\ []((IsFp /\ fp_pc = "return") => ReturnedInAllocationOrder)

\* the diamond 0 -> {1 (priority 2), 2 (priority 1)} -> 3 on two cores has
\* returned [0, 2, 1, 3]
C10_Witness ==
    /\ IsFp /\ fp_pc = "return"
    /\ fp_self_dag.n = 4
    /\ fp_self_dag.edges = {<<0, 1>>, <<0, 2>>, <<1, 3>>, <<2, 3>>}
    /\ fp_self_dag.priority[1] = Some(2)
    /\ fp_self_dag.priority[2] = Some(1)
    /\ DOMAIN fp_processor = 0 .. 1
    /\ fp_result.execution_order = <<0, 2, 1, 3>>

(***************************************************************************)
(* The dummy nodes of the list scheduler                                   *)
(***************************************************************************)
\* the latest finish time logged for a node of the DAG
LastLoggedFinish ==
    LET F == UNION {SeqRange(fp_node_logs[v].finish_time) : v \in Nodes(fp_self_dag)}
    IN CHOOSE x \in F : \A y \in F : y <= x

\* C11: the returned schedule length is the number of simulated ticks minus
\* the two ticks of the dummies, which is the latest logged finish time, and
\* the returned execution_order holds every node of the original DAG exactly
\* once and neither dummy; the DAG is left as it was given.
C11_DummyTransparency ==
    (IsFp /\ fp_pc = "return") =>
        LET eo == fp_result.execution_order
        IN /\ fp_result.schedule_length = fp_time - 2
           /\ fp_result.schedule_length = LastLoggedFinish
           /\ Len(eo) = fp_self_dag.n
           /\ \A v \in Nodes(fp_self_dag) :
                 Cardinality({i \in 1 .. Len(eo) : eo[i] = v}) = 1
           /\ \A i \in 1 .. Len(eo) :
                 eo[i] # fp_self_dag.n /\ eo[i] # fp_self_dag.n + 1
           /\ execution_order = eo
           /\ fp_dag = fp_self_dag

\* a DAG with two sources and a node of execution time 2 has been scheduled
C11_Witness ==
    /\ IsFp /\ fp_pc = "return"
    /\ Cardinality(get_source_nodes(fp_self_dag)) = 2
    /\ \E v \in Nodes(fp_self_dag) : fp_self_dag.et[v] = 2
    /\ fp_result.schedule_length >= 3

(***************************************************************************)
(* Precedence in the list scheduler                                        *)
(***************************************************************************)
InDegree(dag, v) == Cardinality({e \in dag.edges : e[2] = v})

PositionIn(q, v) == CHOOSE i \in 1 .. Len(q) : q[i] = v

\* every edge of the original DAG is respected by the logged times
FpEdgesRespected ==
    \A e \in fp_self_dag.edges :
        LET u == fp_node_logs[e[1]]
            v == fp_node_logs[e[2]]
        IN Len(v.start_time) >= 1 =>
              /\ Len(u.finish_time) >= 1
              /\ u.finish_time[1] <= v.start_time[1]

\* C12: a node enters the ready queue only when its pre_done_count equals
\* its in-degree; for every edge (u, v) the logged finish of u is not later
\* than the logged start of v; the returned execution_order is a topological
\* order of the DAG.
C12_FpPrecedence ==
    /\ [](IsFp /\ fp_pc # "new" => FpEdgesRespected)
    /\ [][(IsFp /\ fp_pc = "retire") =>
            \A i \in (Len(fp_ready_queue) + 1) .. Len(fp_ready_queue') :
                fp_pre_done'[fp_ready_queue'[i].id]
                    = InDegree(fp_dag, fp_ready_queue'[i].id)]_vars
    /\ []((IsFp /\ fp_pc = "return") =>
            \A e \in fp_self_dag.edges :
                PositionIn(fp_result.execution_order, e[1])
                    < PositionIn(fp_result.execution_order, e[2]))

\* the join of the diamond has started after its two predecessors finished at
\* different times
C12_Witness ==
    /\ IsFp /\ fp_pc = "return"
    /\ fp_self_dag.edges = {<<0, 1>>, <<0, 2>>, <<1, 3>>, <<2, 3>>}
    /\ fp_node_logs[1].finish_time[1] # fp_node_logs[2].finish_time[1]
    /\ fp_node_logs[3].start_time[1] >= fp_node_logs[1].finish_time[1]
    /\ fp_node_logs[3].start_time[1] >= fp_node_logs[2].finish_time[1]

(***************************************************************************)
(* Determinism                                                             *)
(***************************************************************************)
\* the state before schedule() is fixed by the DAG set and the number of cores
EdfInitialStateFixed ==
    LET m == Cardinality(DOMAIN processor)
    IN /\ processor = [c \in 0 .. (m - 1) |->
                          [is_idle |-> TRUE, node |-> NoNode, remain_proc_time |-> 0]]
       /\ pre_done_count = [k \in DOMAIN dag_set |-> [v \in 0 .. (dag_set[k].n - 1) |-> 0]]
       /\ current_time = 0
       /\ managers = [k \in DOMAIN dag_set |->
                        [release_count |-> 0, is_started |-> FALSE,
                         is_released |-> FALSE]]
       /\ ready_queue = {}
       /\ \A k \in DOMAIN dag_set :
             /\ dag_set_log[k] = [release_time |-> <<>>, start_time |-> <<>>,
                                  finish_time |-> <<>>]
             /\ \A v \in 0 .. (dag_set[k].n - 1) :
                   node_set_logs[k][v] = [start_time |-> <<>>, finish_time |-> <<>>,
                                          core_id |-> <<>>]

\* the state before schedule() is fixed by the DAG and the number of cores
FpInitialStateFixed ==
    LET m == Cardinality(DOMAIN fp_processor)
    IN /\ fp_processor = [c \in 0 .. (m - 1) |->
                            [is_idle |-> TRUE, node |-> NoNode, remain_proc_time |-> 0]]
       /\ fp_dag = fp_self_dag
       /\ fp_ready_queue = <<>>
       /\ fp_time = 0
       /\ execution_order = <<>>
       /\ \A v \in 0 .. (fp_self_dag.n - 1) :
             fp_node_logs[v] = [start_time |-> <<>>, finish_time |-> <<>>,
                                core_id |-> <<>>]

\* C13: the state in which schedule() starts is fixed by the DAG(s) and the
\* core count, and no step of either scheduler has a second possible
\* successor state; so two runs from identical inputs pass through the same
\* states and end with the same logs, return value and execution order.
C13_Determinism ==
    /\ []((IsEdf /\ pc = "new") => EdfInitialStateFixed)
    /\ []((IsFp /\ fp_pc = "new") => FpInitialStateFixed)
    /\ [][\E t \in {vars'} : ~ENABLED (Next /\ vars' # t)]_vars

\* two nodes are ready at once with one idle core: the allocation has to choose
C13_Witness ==
    /\ IsEdf /\ pc = "process_unit_time"
    /\ ready_queue # {}
    /\ \E c \in DOMAIN processor :
          /\ ~processor[c].is_idle
          /\ processor[c].remain_proc_time = processor[c].node.execution_time
          /\ Len(node_set_logs[processor[c].node.dag_id.val][processor[c].node.id].start_time) >= 1

(***************************************************************************)
(* The feasibility verdict of the Global EDF binary                        *)
(***************************************************************************)
\* the largest response time among the finished jobs of DAG k
WorstResponse(k) ==
    LET rel == dag_set_log[k].release_time
        fin == dag_set_log[k].finish_time
        J == {i \in 1 .. Len(rel) : i <= Len(fin)}
    IN IF J = {} THEN 0
       ELSE CHOOSE x \in {fin[i] - rel[i] : i \in J} :
               \A i \in J : fin[i] - rel[i] <= x

\* C14: the result reported by main is true exactly when the worst response
\* time of every DAG of the set is at most its head period.
C14_FeasibilityVerdict ==
    (IsEdf /\ result # "unset") =>
        /\ pc = "return"
        /\ result \in {"true", "false"}
        /\ result = "true" <=>
              \A k \in DOMAIN dag_set : WorstResponse(k) <= dag_set[k].period

\* the first DAG has missed its period, the second has not: the loop has
\* left early with the result false
C14_Witness ==
    /\ IsEdf /\ result = "false"
    /\ DOMAIN dag_set = 0 .. 1
    /\ WorstResponse(0) > dag_set[0].period
    /\ Len(dag_set_log[1].finish_time) >= 1
    /\ WorstResponse(1) <= dag_set[1].period

(***************************************************************************)
(* The federated analysis                                                  *)
(***************************************************************************)
IsFed == mode = "fed"

FedDone == IsFed /\ fed_result.kind # "unset"

HighIndices == {i \in 1 .. Len(fed_dag_set) :
                   fed_dag_set[i].volume > fed_dag_set[i].period}

LowIndices == (1 .. Len(fed_dag_set)) \ HighIndices

SomePathExceedsPeriod ==
    \E i \in 1 .. Len(fed_dag_set) :
        fed_dag_set[i].critical_path > fed_dag_set[i].period

\* ceil((volume - L) / (T - L)): the least c with c * (T - L) >= volume - L
MelaniBound(i) ==
    LET d == fed_dag_set[i]
    IN CHOOSE c \in 0 .. d.volume :
          /\ c * (d.period - d.critical_path) >= d.volume - d.critical_path
          /\ \A b \in 0 .. (c - 1) :
                b * (d.period - d.critical_path) < d.volume - d.critical_path

\* the sum of the Melani bounds of the high-utilization DAGs up to index n
RECURSIVE HighTotalUpTo(_)
HighTotalUpTo(n) ==
    IF n = 0 THEN 0
    ELSE HighTotalUpTo(n - 1) + (IF n \in HighIndices THEN MelaniBound(n) ELSE 0)

HighTotal == HighTotalUpTo(Len(fed_dag_set))

\* C15: if the critical path of some DAG of the set is longer than its
\* period, the result is Unschedulable with the critical-path reason and
\* insufficient_cores = 0, whatever the number of cores.
C15_CriticalPathCheck ==
    (FedDone /\ SomePathExceedsPeriod) =>
        /\ fed_result.kind = "Unschedulable"
        /\ fed_result.reason
              = "The critical path length is greater than end_to_end_deadline."
        /\ fed_result.insufficient_cores = 0

\* a high-utilization DAG that does not fit on the cores comes before the DAG
\* whose critical path exceeds the period
C15_Witness ==
    /\ FedDone /\ Len(fed_dag_set) = 2
    /\ 1 \in HighIndices
    /\ fed_dag_set[1].critical_path < fed_dag_set[1].period
    /\ MelaniBound(1) > fed_cores
    /\ fed_dag_set[2].critical_path > fed_dag_set[2].period
    /\ fed_result.reason
          = "The critical path length is greater than end_to_end_deadline."

HighShortage == FedDone /\ ~SomePathExceedsPeriod /\ HighTotal > fed_cores

FirstShortIndex ==
    CHOOSE k \in HighIndices :
        /\ HighTotalUpTo(k) > fed_cores
        /\ \A j \in HighIndices : j < k => HighTotalUpTo(j) <= fed_cores

RECURSIVE PeriodsTimes(_)
PeriodsTimes(I) ==
    IF I = {} THEN 1
    ELSE LET i == CHOOSE x \in I : TRUE
         IN fed_dag_set[i].period * PeriodsTimes(I \ {i})

\* the sum of volume / period over the low-utilization DAGs, times the
\* product of the periods of these DAGs
RECURSIVE ScaledLowUtilization(_)
ScaledLowUtilization(I) ==
    IF I = {} THEN 0
    ELSE LET i == CHOOSE x \in I : TRUE
         IN fed_dag_set[i].volume * PeriodsTimes(LowIndices \ {i})
               + ScaledLowUtilization(I \ {i})

\* every DAG is feasible on its own and the high-utilization DAGs fit
LowPoolDecides == FedDone /\ ~SomePathExceedsPeriod /\ HighTotal <= fed_cores

\* C17: when the high-utilization DAGs fit, low_cores = m - high_total and
\* the result is Schedulable exactly when the utilizations of the
\* low-utilization DAGs add up to at most low_cores / 2; otherwise it is
\* Unschedulable for low-utilization tasks with
\* insufficient_cores = ceil(2 * low_util_sum) - low_cores.
C17_LowPool ==
    LowPoolDecides =>
        LET low_cores == fed_cores - HighTotal
            den == PeriodsTimes(LowIndices)
            num == ScaledLowUtilization(LowIndices)
        IN /\ (fed_result.kind = "Schedulable") <=> (2 * num <= low_cores * den)
           /\ (2 * num > low_cores * den) =>
                /\ fed_result.kind = "Unschedulable"
                /\ fed_result.reason
                      = "Insufficient number of cores for low-utilization tasks."
                /\ (fed_result.insufficient_cores + low_cores) * den >= 2 * num
                /\ (fed_result.insufficient_cores + low_cores - 1) * den < 2 * num

\* the test of outputs_result.rs: one DAG that needs 3 cores and two
\* low-utilization DAGs on 3 cores lack 2 cores
C17_Witness ==
    /\ FedDone /\ fed_cores = 3
    /\ fed_dag_set = <<HighUtilizationDag, LowUtilizationDag, LowUtilizationDag>>
    /\ fed_result.kind = "Unschedulable"
    /\ fed_result.reason
          = "Insufficient number of cores for low-utilization tasks."
    /\ fed_result.insufficient_cores = 2

\* C18: a Schedulable result has high_dedicated_cores equal to the sum of the
\* Melani bounds of the high-utilization DAGs and low_dedicated_cores equal
\* to m minus that sum, so the two add up to m.
C18_CoreAccounting ==
    (FedDone /\ fed_result.kind = "Schedulable") =>
        /\ fed_result.high_dedicated_cores = HighTotal
        /\ fed_result.low_dedicated_cores = fed_cores - HighTotal
        /\ fed_result.high_dedicated_cores + fed_result.low_dedicated_cores
              = fed_cores

\* the test of outputs_result.rs: 6 and 34 cores out of 40
C18_Witness ==
    /\ FedDone /\ fed_cores = 40
    /\ fed_dag_set = <<HighUtilizationDag, HighUtilizationDag, LowUtilizationDag>>
    /\ fed_result.high_dedicated_cores = 6
    /\ fed_result.low_dedicated_cores = 34

\* C19: a DAG set that is Schedulable on m cores is Schedulable on every
\* larger number of cores.
C19_Monotone ==
    (FedDone /\ fed_result.kind = "Schedulable") =>
        \A more \in (fed_cores + 1) .. 41 :
            federated(fed_dag_set, more).kind = "Schedulable"

\* a set with a high- and a low-utilization DAG that exactly fits: every core
\* is needed
C19_Witness ==
    /\ FedDone /\ fed_result.kind = "Schedulable"
    /\ HighIndices # {} /\ LowIndices # {}
    /\ fed_cores > 1
    /\ federated(fed_dag_set, fed_cores - 1).kind = "Unschedulable"
    /\ federated(fed_dag_set, fed_cores + 1).kind = "Schedulable"

(***************************************************************************)
(* Normalization to implicit deadlines                                     *)
(***************************************************************************)
PeriodNodes(dag) == {v \in Nodes(dag) : dag.period[v].some}

DeadlineNodes(dag) == {v \in Nodes(dag) : dag.end_to_end_deadline[v].some}

HadPeriodOrDeadline(dag) == PeriodNodes(dag) # {} \/ DeadlineNodes(dag) # {}

\* both params exist and are equal, the period on a source node and the
\* deadline on a sink node, and the period of the input is unchanged
Normalized(before, after) ==
    /\ after.n = before.n /\ after.edges = before.edges
    /\ PeriodNodes(after) # {}
    /\ PeriodNodes(after) \subseteq get_source_nodes(after)
    /\ DeadlineNodes(after) # {}
    /\ DeadlineNodes(after) \subseteq get_sink_nodes(after)
    /\ \A v \in PeriodNodes(after), w \in DeadlineNodes(after) :
          after.period[v] = after.end_to_end_deadline[w]
    /\ \A v \in PeriodNodes(before) : after.period[v] = before.period[v]

AdjCalled == mode = "adj" /\ adj_pc # "call"

\* C20: after adjust_to_implicit_deadline every DAG that had a period and/or
\* an end-to-end deadline has both, equal, the period on a source node and
\* the deadline on a sink node, and a period that was present is unchanged;
\* the call fails only for a set with a DAG that has neither.
C20_ImplicitDeadline ==
    AdjCalled =>
        /\ (adj_pc = "panic") =>
              \E i \in 1 .. Len(adj_input) : ~HadPeriodOrDeadline(adj_input[i])
        /\ (adj_pc = "return") =>
              \A i \in 1 .. Len(adj_input) :
                  HadPeriodOrDeadline(adj_input[i]) =>
                      Normalized(adj_input[i], adj_dag_set[i])

\* node 0 is a source, the last node is a sink and the deadline of the input,
\* if any, is on a sink
IndexOrdered(dag) ==
    /\ 0 \in get_source_nodes(dag)
    /\ (dag.n - 1) \in get_sink_nodes(dag)
    /\ DeadlineNodes(dag) \subseteq get_sink_nodes(dag)

\* the statement of C20 for the sets whose DAGs are index-ordered
NormalizedWhenIndexOrdered ==
    (AdjCalled /\ \A i \in 1 .. Len(adj_input) : IndexOrdered(adj_input[i])) =>
        /\ (adj_pc = "panic") =>
              \E i \in 1 .. Len(adj_input) : ~HadPeriodOrDeadline(adj_input[i])
        /\ (adj_pc = "return") =>
              \A i \in 1 .. Len(adj_input) :
                  Normalized(adj_input[i], adj_dag_set[i])

\* the three cases of the match on index-ordered DAGs
NormalizedCasesReached ==
    /\ AdjCalled /\ adj_pc = "return" /\ Len(adj_input) = 1
    /\ IndexOrdered(adj_input[1]) /\ adj_input[1].n = 3
    /\ PeriodNodes(adj_input[1]) # {} /\ DeadlineNodes(adj_input[1]) # {}
    /\ adj_dag_set # adj_input

(***************************************************************************)
(* The hyper-period                                                        *)
(***************************************************************************)
HpDone == mode = "hp" /\ hp_result.kind # "unset"

HpPeriods == {hp_dag_set[k].period : k \in DOMAIN hp_dag_set}

\* every period divides h
CommonMultiple(h) == \A p \in HpPeriods : h % p = 0

\* the call returned the least positive common multiple of the periods
ReturnsLeastCommonMultiple ==
    /\ hp_result.kind = "value"
    /\ hp_result.value > 0
    /\ CommonMultiple(hp_result.value)
    /\ \A g \in 1 .. (hp_result.value - 1) : ~CommonMultiple(g)

\* the DAG set in another order: position k holds the DAG of position f[k]
Reordered(f) == [k \in DOMAIN hp_dag_set |-> hp_dag_set[f[k]]]

Reorderings ==
    {f \in [DOMAIN hp_dag_set -> DOMAIN hp_dag_set] :
        \A i, j \in DOMAIN hp_dag_set : i # j => f[i] # f[j]}

\* C21, as stated: for every non-empty DAG set with positive head periods
\* get_hyper_period returns the least positive integer that every head period
\* divides, whatever the order of the DAGs.
C21_HyperPeriodIsLcm ==
    HpDone =>
        /\ ReturnsLeastCommonMultiple
        /\ \A f \in Reorderings :
              get_hyper_period(Reordered(f)) = hp_result.value

\* the least common multiple is small, far below i32::MAX
SmallLcm == \E h \in 1 .. 1000 : CommonMultiple(h)

\* C21, amended: for every non-empty DAG set with positive head periods whose
\* least common multiple is at most i32::MAX, get_hyper_period returns that
\* least common multiple, whatever the order of the DAGs.  (Of the explored
\* sets, those in range are the ones with a least common multiple up to 1000.)
C21_HyperPeriodIsLcmInRange ==
    HpDone =>
        /\ SmallLcm <=> ~HyperPeriodOverflows(hp_dag_set, 0, 1)
        /\ SmallLcm =>
              /\ ReturnsLeastCommonMultiple
              /\ \A f \in Reorderings :
                    get_hyper_period(Reordered(f)) = hp_result.value

\* the test of util.rs: periods 10, 20, 30, 40 give 120
C21_Witness ==
    /\ HpDone
    /\ hp_dag_set = DagSetOfPeriods(<<10, 20, 30, 40>>)
    /\ hp_result = [kind |-> "value", value |-> 120]

(***************************************************************************)
(* schedule() called twice                                                 *)
(***************************************************************************)
\* C22: schedule() works on a copy of the DAG of the scheduler: when it has
\* returned, the DAG that the next call starts from is the input, with no
\* dummy node and no pre_done_count on any node, and a second call with the
\* same cores neither gets stuck nor returns another (makespan,
\* execution_order) than the first.
C22_InputUnchanged ==
    /\ (IsFp /\ fp_pc = "return") =>
          /\ get_dag.dag = fp_self_dag
          /\ get_dag.dag.n = Len(fp_result.execution_order)
          /\ \A v \in Nodes(get_dag.dag) : get_dag.pdc[v] = 0
    /\ (IsFp /\ fp_first # <<>> /\ fp_pc = "process") =>
          \E c \in DOMAIN fp_processor : ~fp_processor[c].is_idle
    /\ (IsFp /\ fp_first # <<>> /\ fp_pc = "return") => fp_result = fp_first[1]

\* the second call has returned for a DAG of four nodes on two cores, every
\* node logged twice
C22_Witness ==
    /\ IsFp /\ fp_first # <<>> /\ fp_pc = "return"
    /\ fp_self_dag.n = 4
    /\ Cardinality(DOMAIN fp_processor) = 2
    /\ fp_result = fp_first[1]
    /\ fp_result.schedule_length > 2
    /\ \A v \in Nodes(fp_self_dag) : Len(fp_node_logs[v].start_time) = 2

(***************************************************************************)
(* The minimum number of cores of a DAG                                    *)
(***************************************************************************)
DynReturned == IsFp /\ dyn_result # <<>>

\* the sum of the execution times of a set of nodes
RECURSIVE ExecutionSum(_, _)
ExecutionSum(dag, S) ==
    IF S = {} THEN 0
    ELSE LET v == CHOOSE x \in S : TRUE
         IN dag.et[v] + ExecutionSum(dag, S \ {v})

\* C23: calculate_minimum_cores_and_execution_order returns (m, order) where
\* the schedule on m cores ends by the deadline and order is the execution
\* order of that schedule, and every smaller number of cores is too small:
\* the numbers tried before m, one by one from the first one, gave a schedule
\* longer than the deadline, and below the first one tried the work of the
\* DAG does not fit into deadline * cores.  No schedule does more work than
\* cores * length.
C23_MinimumCores ==
    /\ IsFp /\ dyn_deadline > 0 =>
          \A i \in 1 .. Len(dyn_tries) :
              /\ dyn_tries[i].cores = dyn_tries[1].cores + i - 1
              /\ ExecutionSum(fp_self_dag, Nodes(fp_self_dag))
                    <= dyn_tries[i].cores * dyn_tries[i].schedule_length
              /\ i < Len(dyn_tries) => dyn_tries[i].schedule_length > dyn_deadline
    /\ DynReturned =>
          LET m == dyn_result[1].minimum_cores
              last == dyn_tries[Len(dyn_tries)]
          IN /\ last.cores = m
             /\ last.schedule_length <= dyn_deadline
             /\ Cardinality(DOMAIN fp_processor) = m
             /\ fp_result.schedule_length = last.schedule_length
             /\ dyn_result[1].execution_order = fp_result.execution_order
             /\ \A fewer \in 1 .. (dyn_tries[1].cores - 1) :
                   fewer * dyn_deadline
                      < ExecutionSum(fp_self_dag, Nodes(fp_self_dag))

\* the test of dynfed.rs: 3 cores and the order 0, 1, 3, 2, after a first call
\* with 2 cores
C23_Witness ==
    /\ DynReturned
    /\ fp_self_dag = SampleDag /\ dyn_deadline = 100
    /\ dyn_result = <<[minimum_cores |-> 3, execution_order |-> <<0, 1, 3, 2>>]>>
    /\ dyn_tries = <<[cores |-> 2, schedule_length |-> 112],
                     [cores |-> 3, schedule_length |-> 92]>>

(***************************************************************************)
(* Ties in the fixed-priority ready queue                                  *)
(***************************************************************************)
\* the place of node id in the ready queue q
PlaceInQueue(q, id) == CHOOSE i \in 1 .. Len(q) : q[i].id = id

\* the place of node id among the nodes that the step allocates, 0 if none
AllocationRank(id) ==
    IF \E i \in 1 .. Len(NewlyAllocated) : NewlyAllocated[i] = id
    THEN CHOOSE i \in 1 .. Len(NewlyAllocated) : NewlyAllocated[i] = id
    ELSE 0

SmallerId(a, b) == a < b

EnteredFirst(a, b) ==
    PlaceInQueue(fp_ready_queue, a) < PlaceInQueue(fp_ready_queue, b)

\* of two ready nodes of equal priority, b is allocated by the step only
\* after a, whenever a comes first in the order Before
TiesGoTo(Before(_, _)) ==
    \A a \in ReadyIds : \A b \in ReadyIds :
        (a # b /\ Key999(a) = Key999(b) /\ Before(a, b)
               /\ AllocationRank(b) > 0)
            => (AllocationRank(a) > 0 /\ AllocationRank(a) < AllocationRank(b))

\* the nodes of equal priority that the step leaves in the queue keep their
\* relative places
TiesKeepPlace ==
    LET left == {fp_ready_queue'[i].id : i \in 1 .. Len(fp_ready_queue')}
    IN \A a \in left : \A b \in left :
          (Key999(a) = Key999(b) /\ EnteredFirst(a, b))
              => PlaceInQueue(fp_ready_queue', a) < PlaceInQueue(fp_ready_queue', b)

\* the i-th node that the step allocates runs on the i-th lowest idle core
CoresByIndex ==
    \A i \in 1 .. Len(NewlyAllocated) :
        /\ ~fp_processor'[IdleCoreOfRank(i)].is_idle
        /\ fp_processor'[IdleCoreOfRank(i)].node.id = NewlyAllocated[i]

\* the steps that push to the ready queue put the new nodes behind the old
ArrivalsAtBack ==
    /\ Len(fp_ready_queue) <= Len(fp_ready_queue')
    /\ SubSeq(fp_ready_queue', 1, Len(fp_ready_queue)) = fp_ready_queue

MarkedStarted ==
    {k \in DOMAIN managers : ~managers[k].is_started /\ managers'[k].is_started}

\* the DAGs that are released and not started when the start phase begins
StartCandidates ==
    {k \in DOMAIN managers : managers[k].is_released /\ ~managers[k].is_started}

\* C25: the DAGs marked started by a start phase were released and not yet
\* started; they are the candidates of the lowest DAG ids; they are no more
\* than the cores idle when the phase begins; each gets one dag_start_time.
C25_StartGating ==
    [][(IsEdf /\ pc = "start_dag") =>
          /\ MarkedStarted \subseteq StartCandidates
          /\ Cardinality(MarkedStarted) <= get_idle_core_num(processor)
          /\ \A k \in MarkedStarted : \A j \in StartCandidates :
                j < k => j \in MarkedStarted
          /\ \/ MarkedStarted = StartCandidates
             \/ Cardinality(MarkedStarted) = get_idle_core_num(processor)
          /\ \A k \in DOMAIN managers :
                /\ managers'[k].is_released = managers[k].is_released
                /\ managers'[k].release_count = managers[k].release_count
                /\ dag_set_log'[k].start_time =
                      IF k \in MarkedStarted
                      THEN Append(dag_set_log[k].start_time, current_time)
                      ELSE dag_set_log[k].start_time]_vars

\* two DAGs released at tick 0 and one core: the start phase of tick 0 has
\* started DAG 0 and left DAG 1 released and waiting
C25_Witness ==
    /\ IsEdf /\ pc = "allocate_node" /\ current_time = 0
    /\ DOMAIN processor = 0 .. 0
    /\ DOMAIN managers = 0 .. 1
    /\ managers[0].is_started
    /\ managers[1].is_released /\ ~managers[1].is_started
    /\ dag_set_log[0].start_time = <<0>>
    /\ dag_set_log[1].start_time = <<>>

\* C26: a start phase puts every source node (in-degree 0) of each DAG that
\* it marks started into the ready set.
C26_AllSourcesSeeded ==
    [][(IsEdf /\ pc = "start_dag") =>
          \A k \in MarkedStarted :
             \A v \in get_source_nodes(dag_set[k]) :
                EdfNode(dag_set, k, v) \in ready_queue']_vars

(***************************************************************************)
(* The retire phase of the Global EDF loop                                 *)
(***************************************************************************)
\* the cores that report a Done node of DAG k
DoneCores(k) ==
    {c \in DOMAIN process_result :
        process_result[c].done /\ process_result[c].node.dag_id.val = k}

\* of these, the cores whose Done node has no successor
SinkCores(k) ==
    {c \in DoneCores(k) :
        get_suc_nodes(dag_set[k], process_result[c].node.id) = {}}

\* the Done nodes with successors that are retired after the last reset of
\* DAG k in this phase (all of them when the phase resets nothing)
CountedCores(k) ==
    {c \in DoneCores(k) \ SinkCores(k) : \A d \in SinkCores(k) : d < c}

\* how many of them are direct predecessors of node w
Increments(k, w) ==
    Cardinality({c \in CountedCores(k) :
                    <<process_result[c].node.id, w>> \in dag_set[k].edges})

RECURSIVE Repeat(_, _)
Repeat(x, n) == IF n = 0 THEN <<>> ELSE <<x>> \o Repeat(x, n - 1)

\* what the retire phase does to DAG k
RetiredAsStated(k) ==
    /\ managers'[k].release_count = managers[k].release_count
    /\ dag_set_log'[k].release_time = dag_set_log[k].release_time
    /\ dag_set_log'[k].start_time = dag_set_log[k].start_time
    /\ dag_set_log'[k].finish_time =
          dag_set_log[k].finish_time
              \o Repeat(current_time, Cardinality(SinkCores(k)))
    /\ IF SinkCores(k) # {}
       THEN /\ ~managers'[k].is_started /\ ~managers'[k].is_released
            /\ \A w \in Nodes(dag_set[k]) :
                  pre_done_count'[k][w] = Increments(k, w)
            /\ CountedCores(k) = {} =>
                  \A w \in Nodes(dag_set[k]) : pre_done_count'[k][w] = 0
       ELSE /\ managers'[k] = managers[k]
            /\ \A w \in Nodes(dag_set[k]) :
                  pre_done_count'[k][w] = pre_done_count[k][w] + Increments(k, w)
    /\ DoneCores(k) = {} =>
          /\ pre_done_count'[k] = pre_done_count[k]
          /\ dag_set_log'[k] = dag_set_log[k]

\* C27: the retire phase logs dag_finish_time for a Done node without
\* successors, zeroes pre_done_count on every node of its DAG and clears
\* is_started and is_released, leaving release_count and the other DAGs as
\* they were; a Done node with successors only adds 1 to the pre_done_count
\* of each direct successor.
C27_PeriodReset ==
    [][(IsEdf /\ pc = "handling_nodes_finished") =>
          \A k \in DOMAIN dag_set : RetiredAsStated(k)]_vars

\* the sink of a DAG with an edge 0->1 has just been retired: the finish
\* time of the job is logged, every pre_done_count is back to 0 and the DAG
\* is neither started nor released
C27_Witness ==
    /\ IsEdf /\ pc = "insert_ready_node"
    /\ \E k \in DOMAIN dag_set :
          /\ <<0, 1>> \in dag_set[k].edges
          /\ SinkCores(k) # {}
          /\ managers[k].release_count = 1
          /\ ~managers[k].is_started /\ ~managers[k].is_released
          /\ \A w \in Nodes(dag_set[k]) : pre_done_count[k][w] = 0
          /\ dag_set_log[k].finish_time = <<current_time>>

(***************************************************************************)
(* The order of the phases of one tick                                     *)
(***************************************************************************)
Last(q) == q[Len(q)]

\* the phase that follows each phase, and what only that phase may change
PhaseOrderStated ==
    /\ pc = "release_dag" => pc' = "start_dag"
    /\ pc = "start_dag" => pc' = "allocate_node"
    /\ pc = "allocate_node" => pc' = "process_unit_time"
    /\ pc = "process_unit_time" => pc' = "handling_nodes_finished"
    /\ pc = "handling_nodes_finished" => pc' = "insert_ready_node"
    /\ pc = "insert_ready_node" => pc' \in {"release_dag", "return"}
    /\ current_time' # current_time => pc = "process_unit_time"
    /\ \A k \in DOMAIN dag_set :
          /\ dag_set_log'[k].release_time # dag_set_log[k].release_time
                => pc = "release_dag"
          /\ dag_set_log'[k].start_time # dag_set_log[k].start_time
                => pc = "start_dag"
          /\ dag_set_log'[k].finish_time # dag_set_log[k].finish_time
                => pc = "handling_nodes_finished"
    /\ node_set_logs' # node_set_logs
          => pc \in {"allocate_node", "handling_nodes_finished"}
    /\ ready_queue' # ready_queue
          => pc \in {"start_dag", "allocate_node", "insert_ready_node"}

\* DAG k has logged a finish at the current tick, which is a release time of k
FinishedAtReleaseTime(k) ==
    /\ dag_set_log[k].finish_time # <<>>
    /\ Last(dag_set_log[k].finish_time) = current_time
    /\ current_time >= dag_set[k].offset
    /\ (current_time - dag_set[k].offset) % dag_set[k].period = 0

ReleasedNow(k) ==
    /\ dag_set_log[k].release_time # <<>>
    /\ Last(dag_set_log[k].release_time) = current_time

StartedNow(k) ==
    /\ dag_set_log[k].start_time # <<>>
    /\ Last(dag_set_log[k].start_time) = current_time

\* when the allocate phase of a tick begins, a DAG that finished at this tick,
\* a release time of the DAG, has been released at this tick and, unless the
\* DAGs of lower id started at this tick took every idle core, started
BackToBack ==
    \A k \in DOMAIN dag_set :
        FinishedAtReleaseTime(k) =>
            /\ ReleasedNow(k)
            /\ Cardinality({j \in DOMAIN dag_set : j < k /\ StartedNow(j)})
                   < get_idle_core_num(processor)
               => StartedNow(k)

\* C28: every iteration of the loop runs release, start, allocate, process,
\* retire, enqueue-ready in this order; a DAG whose sink finishes at a tick
\* of the loop that is its next release time is released at that tick and,
\* a core being idle, started at that tick.
C28_PhaseOrder ==
    /\ [][IsEdf => PhaseOrderStated]_vars
    /\ []((IsEdf /\ pc = "allocate_node") => BackToBack)

\* a DAG whose first job took exactly one period: it finished at the tick of
\* its second release and has been released and started again at that tick
C28_Witness ==
    /\ IsEdf /\ pc = "allocate_node"
    /\ \E k \in DOMAIN dag_set :
          /\ Len(dag_set_log[k].finish_time) = 1
          /\ dag_set_log[k].finish_time[1] - dag_set_log[k].release_time[1]
                = dag_set[k].period
          /\ FinishedAtReleaseTime(k)
          /\ Len(dag_set_log[k].release_time) = 2 /\ ReleasedNow(k)
          /\ Len(dag_set_log[k].start_time) = 2 /\ StartedNow(k)

(***************************************************************************)
(* Termination of the list scheduler                                       *)
(***************************************************************************)
AllocatedIds == {execution_order[i] : i \in 1 .. Len(execution_order)}

RECURSIVE SumOver(_, _)
SumOver(f, S) ==
    IF S = {} THEN 0
    ELSE LET x == MinOf(S) IN f[x] + SumOver(f, S \ {x})

\* the execution time that is still to be spent: the nodes not yet allocated
\* and what is left of the nodes on the cores
RemainingWork ==
    SumOver(fp_dag.et, Nodes(fp_dag) \ AllocatedIds)
       + SumOver([c \in DOMAIN fp_processor |-> fp_processor[c].remain_proc_time],
                 DOMAIN fp_processor)

\* a measure that every step of schedule() decreases
FpVariant ==
    CASE fp_pc = "new" -> 3 * (RemainingWork + 2 * DUMMY_EXECUTION_TIME) + 3
      [] fp_pc = "allocate" -> 3 * RemainingWork + 2
      [] fp_pc = "process" -> 3 * RemainingWork + 1
      [] fp_pc = "retire" -> 3 * RemainingWork + 3
      [] fp_pc = "epilogue" -> 1
      [] OTHER -> 0

\* every node of the DAG has one logged start and one logged finish
AllNodesRanOnce ==
    \A v \in Nodes(fp_self_dag) :
        /\ Len(fp_node_logs[v].start_time) = 1
        /\ Len(fp_node_logs[v].finish_time) = 1
        /\ Cardinality({i \in 1 .. Len(execution_order) :
                           execution_order[i] = v}) = 1

\* C29: schedule() terminates: the wait for a Done node always has a node
\* running, and every step decreases a measure that is never negative; the
\* loop is left exactly when the dummy sink is the only node that finished,
\* and every node of the DAG has then been allocated once and has finished.
C29_FpTermination ==
    /\ [](IsFp => /\ FpVariant >= 0
                  /\ fp_pc \in {"new", "allocate", "process", "retire",
                                "epilogue", "return"}
                  /\ fp_pc = "process" =>
                        \E c \in DOMAIN fp_processor : ~fp_processor[c].is_idle
                  /\ fp_pc = "epilogue" =>
                        (finish_nodes = <<sink_node_i>> /\ AllNodesRanOnce
                           /\ fp_ready_queue = <<>>
                           /\ \A c \in DOMAIN fp_processor :
                                 fp_processor[c].is_idle))
    /\ [][(IsFp /\ fp_pc # "return") => FpVariant' < FpVariant]_vars
    /\ [][(IsFp /\ fp_pc = "retire") =>
            (fp_pc' = "epilogue" <=> finish_nodes = <<sink_node_i>>)]_vars

\* the loop has just been left for the fork 0 -> {1, 2} on two cores: the
\* dummy sink finished alone, after both sinks of the DAG
C29_Witness ==
    /\ IsFp /\ fp_pc = "epilogue"
    /\ fp_self_dag.n = 3
    /\ fp_self_dag.edges = {<<0, 1>>, <<0, 2>>}
    /\ DOMAIN fp_processor = 0 .. 1
    /\ finish_nodes = <<sink_node_i>>
    /\ fp_node_logs[1].start_time = fp_node_logs[2].start_time
    /\ AllNodesRanOnce

(***************************************************************************)
(* Releases and starts of a DAG                                            *)
(***************************************************************************)
\* DAG k has a logged release without a start of its own
ReleasePending(k) ==
    Len(dag_set_log[k].release_time) > Len(dag_set_log[k].start_time)

\* the i-th start of DAG k is not before its i-th release
StartsFollowReleases(k) ==
    /\ Len(dag_set_log[k].start_time) <= Len(dag_set_log[k].release_time)
    /\ \A i \in 1 .. Len(dag_set_log[k].start_time) :
          dag_set_log[k].start_time[i] >= dag_set_log[k].release_time[i]

\* C30: the i-th start of a DAG follows its i-th release, and when the
\* allocate phase of a tick begins no DAG without a job in progress is left
\* with a release that has no start of its own, unless the DAGs started at
\* this tick took every core that was idle.
C30_NoReleaseLost ==
    [](IsEdf =>
         \A k \in DOMAIN dag_set :
            /\ StartsFollowReleases(k)
            /\ (pc = "allocate_node" /\ ReleasePending(k)
                   /\ ~managers[k].is_started)
               => Cardinality({j \in DOMAIN dag_set : StartedNow(j)})
                     >= get_idle_core_num(processor))

(***************************************************************************)
(* Earliest deadline first                                                 *)
(***************************************************************************)
\* the release of the job of DAG k that is in progress: the latest release
\* that is not after the latest start
JobRelease(k) ==
    LET R == {dag_set_log[k].release_time[i] :
                 i \in 1 .. Len(dag_set_log[k].release_time)}
        before == {r \in R : r <= Last(dag_set_log[k].start_time)}
    IN CHOOSE r \in before : \A x \in before : x <= r

\* release time + period of the job in progress of the DAG of a ready node
AbsoluteDeadline(node) ==
    JobRelease(node.dag_id.val) + dag_set[node.dag_id.val].period

\* C31: no node that an allocate phase leaves in the ready set belongs to a
\* job whose absolute deadline (release time + period) is strictly earlier
\* than that of a node the phase allocates.
C31_EarliestDeadlineFirst ==
    [][(IsEdf /\ pc = "allocate_node") =>
          \A a \in ready_queue \ ready_queue' : \A r \in ready_queue' :
             AbsoluteDeadline(r) >= AbsoluteDeadline(a)]_vars

(***************************************************************************)
(* The times in the log of the list scheduler                              *)
(***************************************************************************)
\* C32: when schedule() returns, every node has one start and one finish in
\* the log with 0 <= start, start + execution_time = finish and
\* finish <= makespan; the sources that found a core in the first allocation
\* start at 0; the makespan is the largest logged finish.
C32_LogTimes ==
    (IsFp /\ fp_pc = "return" /\ fp_first = <<>> /\ dyn_deadline = 0) =>
        LET makespan == fp_result.schedule_length
            start(v) == fp_node_logs[v].start_time[1]
            finish(v) == fp_node_logs[v].finish_time[1]
            sources == get_source_nodes(fp_self_dag)
            m == Cardinality(DOMAIN fp_processor)
        IN /\ \A v \in Nodes(fp_self_dag) :
                 /\ Len(fp_node_logs[v].start_time) = 1
                 /\ Len(fp_node_logs[v].finish_time) = 1
                 /\ 0 <= start(v)
                 /\ finish(v) = start(v) + fp_self_dag.et[v]
                 /\ finish(v) <= makespan
           /\ \E v \in sources : start(v) = 0
           /\ Cardinality({v \in sources : start(v) = 0})
                 = IF Cardinality(sources) <= m THEN Cardinality(sources) ELSE m
           /\ \E v \in Nodes(fp_self_dag) : finish(v) = makespan

\* the chain 0 -> 1 with execution times 2 and 1: node 0 is logged 0..2,
\* node 1 is logged 2..3 and the makespan is 3
C32_Witness ==
    /\ IsFp /\ fp_pc = "return" /\ fp_first = <<>> /\ dyn_deadline = 0
    /\ fp_self_dag.n = 2 /\ fp_self_dag.edges = {<<0, 1>>}
    /\ fp_node_logs[0].start_time = <<0>> /\ fp_node_logs[0].finish_time = <<2>>
    /\ fp_node_logs[1].start_time = <<2>> /\ fp_node_logs[1].finish_time = <<3>>
    /\ fp_result.schedule_length = 3

(***************************************************************************)
(* Soundness of the feasibility verdict                                    *)
(***************************************************************************)
\* the i-th logged release of DAG k has a start and a finish of its own, the
\* finish within one period of the release
JobMetDeadline(k, i) ==
    /\ i <= Len(dag_set_log[k].start_time)
    /\ i <= Len(dag_set_log[k].finish_time)
    /\ dag_set_log[k].finish_time[i]
          <= dag_set_log[k].release_time[i] + dag_set[k].period

\* C33: when main reports true, every job released in the simulated
\* hyper-period was started and finished no later than its release time
\* plus the period of its DAG.
C33_VerdictSound ==
    (IsEdf /\ result = "true") =>
        \A k \in DOMAIN dag_set :
           \A i \in 1 .. Len(dag_set_log[k].release_time) : JobMetDeadline(k, i)

(***************************************************************************)
(* The number of releases, starts and finishes of a DAG                    *)
(***************************************************************************)
\* C34: for every DAG, finishes <= starts <= releases in the log, and the
\* starts exceed the finishes by 0 or 1.
C34_LogCounts ==
    IsEdf =>
        \A k \in DOMAIN dag_set :
           LET releases == Len(dag_set_log[k].release_time)
               starts == Len(dag_set_log[k].start_time)
               finishes == Len(dag_set_log[k].finish_time)
           IN /\ finishes <= starts
              /\ starts <= releases
              /\ starts - finishes \in {0, 1}

(***************************************************************************)
(* pre_done_count between two ticks                                        *)
(***************************************************************************)
\* the direct predecessors of node v of DAG k that have finished in the job
\* of DAG k that is in progress
FinishedPredecessors(k, v) ==
    {u \in get_pre_nodes(dag_set[k], v) :
        /\ node_set_logs[k][u].finish_time # <<>>
        /\ Last(node_set_logs[k][u].finish_time)
              > Last(dag_set_log[k].start_time)}

\* C35: between two ticks, the pre_done_count of every node is the number of
\* its direct predecessors that have finished in the job in progress, hence
\* between 0 and the in-degree, and it is 0 on every node of a DAG that is
\* not started.
C35_PreDoneCount ==
    (IsEdf /\ pc \in {"release_dag", "return"}) =>
        \A k \in DOMAIN dag_set : \A v \in Nodes(dag_set[k]) :
           /\ 0 <= pre_done_count[k][v]
           /\ pre_done_count[k][v] <= InDegree(dag_set[k], v)
           /\ IF managers[k].is_started
              THEN pre_done_count[k][v]
                      = Cardinality(FinishedPredecessors(k, v))
              ELSE pre_done_count[k][v] = 0

(***************************************************************************)
(* The start of a DAG and the start of its source node                     *)
(***************************************************************************)
\* the start times logged for the source node that start_dag seeds
SourceStarts(k) ==
    node_set_logs[k][MinOf(get_source_nodes(dag_set[k]))].start_time

\* C36 as stated: once the allocate phase of a tick is over, every start time
\* logged for a DAG is also the start time logged for its source node in the
\* same job.
C36_SourceStartsWithDag ==
    (IsEdf /\ pc \notin {"start_dag", "allocate_node"}) =>
        \A k \in DOMAIN dag_set :
           /\ Len(SourceStarts(k)) = Len(dag_set_log[k].start_time)
           /\ \A i \in 1 .. Len(SourceStarts(k)) :
                 SourceStarts(k)[i] = dag_set_log[k].start_time[i]

\* C36, amended: the source node of a job is allocated at the tick its DAG
\* is marked started or later; it waits only when the allocate phase of
\* that tick has filled every idle core with nodes that come before it in
\* the order of the ready set.
C36_SourceStartsNotBeforeDag ==
    /\ [](IsEdf =>
            \A k \in DOMAIN dag_set :
               /\ Len(SourceStarts(k)) <= Len(dag_set_log[k].start_time)
               /\ \A i \in 1 .. Len(SourceStarts(k)) :
                     SourceStarts(k)[i] >= dag_set_log[k].start_time[i])
    /\ [][(IsEdf /\ pc = "allocate_node") =>
            \A k \in DOMAIN dag_set :
               LET src == EdfNode(dag_set, k, MinOf(get_source_nodes(dag_set[k])))
               IN (StartedNow(k) /\ src \in ready_queue') =>
                     /\ src \in ready_queue
                     /\ IdleCores(processor') = {}
                     /\ \A a \in ready_queue \ ready_queue' :
                           partial_cmp(a, src) = "Less"]_vars

\* one core, DAG 0 of period 3 started at tick 1 while node 1 of DAG 1, of
\* period 2, is ready: the core goes to DAG 1 and the source of DAG 0 waits
C36_Witness ==
    /\ IsEdf /\ pc = "process_unit_time"
    /\ \E k \in DOMAIN dag_set :
          /\ StartedNow(k)
          /\ EdfNode(dag_set, k, MinOf(get_source_nodes(dag_set[k]))) \in ready_queue
          /\ Len(SourceStarts(k)) < Len(dag_set_log[k].start_time)
          /\ \A c \in DOMAIN processor :
                /\ ~processor[c].is_idle
                /\ processor[c].node.dag_id.val # k
                /\ processor[c].node.period.val < dag_set[k].period

(***************************************************************************)
(* Termination of the search for the minimum number of cores               *)
(***************************************************************************)
\* the largest sum of execution times along a path that ends in node v
RECURSIVE LongestPathTo(_, _)
LongestPathTo(dag, v) ==
    LET P == {LongestPathTo(dag, u) : u \in get_pre_nodes(dag, v)}
    IN dag.et[v] + (IF P = {} THEN 0 ELSE CHOOSE x \in P : \A y \in P : y <= x)

CriticalPathLength(dag) ==
    LET P == {LongestPathTo(dag, v) : v \in Nodes(dag)}
    IN CHOOSE x \in P : \A y \in P : y <= x

\* the call is one that C37 covers
DeadlineAllowsCriticalPath ==
    IsFp /\ dyn_deadline > 0
         /\ CriticalPathLength(fp_self_dag) <= dyn_deadline

DynCores == Cardinality(DOMAIN fp_processor)

\* a measure that every step of the search decreases
DynVariant ==
    IF dyn_result # <<>> THEN 0
    ELSE (fp_self_dag.n - DynCores) * (3 * get_volume(fp_self_dag) + 10)
            + FpVariant + 1

\* C37: when the critical path fits into end_to_end_deadline, the search
\* ends: every step decreases a measure that is never negative, no wait is
\* without a running node and the loop never needs more cores than the DAG
\* has nodes; the returned number of cores lies between
\* ceil(volume / deadline) and the number of nodes.
C37_DynTermination ==
    /\ [](DeadlineAllowsCriticalPath =>
            /\ DynVariant >= 0
            /\ CeilDiv(get_volume(fp_self_dag), dyn_deadline) <= DynCores
            /\ DynCores <= fp_self_dag.n
            /\ fp_pc = "process" =>
                  \E c \in DOMAIN fp_processor : ~fp_processor[c].is_idle
            /\ (fp_pc = "return" /\ dyn_result = <<>>
                  /\ fp_result.schedule_length > dyn_deadline)
               => (DynCores < fp_self_dag.n /\ DynCores < MaxDynCores)
            /\ (fp_pc = "return" /\ DynCores = fp_self_dag.n)
               => fp_result.schedule_length = CriticalPathLength(fp_self_dag)
            /\ dyn_result # <<>> =>
                  /\ CeilDiv(get_volume(fp_self_dag), dyn_deadline)
                        <= dyn_result[1].minimum_cores
                  /\ dyn_result[1].minimum_cores <= fp_self_dag.n)
    /\ [][(DeadlineAllowsCriticalPath /\ dyn_result = <<>>) =>
            DynVariant' < DynVariant]_vars

\* the search has returned after more than one call: it began with
\* ceil(volume / deadline) cores, added one core per call and ended with
\* fewer cores than the DAG has nodes
C37_Witness ==
    /\ DeadlineAllowsCriticalPath
    /\ dyn_result # <<>>
    /\ Len(dyn_tries) >= 2
    /\ dyn_tries[1].cores = CeilDiv(get_volume(fp_self_dag), dyn_deadline)
    /\ dyn_result[1].minimum_cores = dyn_tries[1].cores + Len(dyn_tries) - 1
    /\ dyn_result[1].minimum_cores < fp_self_dag.n

(***************************************************************************)
(* The federated analysis on every DAG that passes the critical-path       *)
(* check.  The catalogue of SpecFed leaves out the high-utilization DAGs   *)
(* whose critical path fills the period; here they are part of the input.  *)
(* For such a DAG the divisor period - critical_path of the Melani bound   *)
(* is 0.  What the division yields is not fixed by the analysis: an        *)
(* integer division stops the program, a floating-point division gives an  *)
(* infinite quotient whose conversion to a core count saturates.  Both     *)
(* outcomes are possible results of the call.                              *)
(***************************************************************************)
\* a high-utilization DAG that passes the critical-path check with
\* critical_path = period
HasZeroDivisor(d) == IsHighUtilization(d) /\ d.critical_path = d.period

ZeroDivisorDags ==
    {d \in [volume : 1 .. MaxVolume, critical_path : 1 .. MaxVolume,
            period : 1 .. MaxFedPeriod] :
        d.critical_path <= d.volume /\ HasZeroDivisor(d)}

AnyFedDagSets ==
    FedDagSets
        \cup {<<a>> : a \in ZeroDivisorDags}
        \cup {<<a, b>> : a \in FedDags, b \in ZeroDivisorDags}
        \cup {<<a, b>> : a \in ZeroDivisorDags, b \in FedDags}

\* the index of the first DAG of ds whose Melani bound divides by 0, or 0
FirstZeroDivisor(ds) ==
    IF \E i \in 1 .. Len(ds) : HasZeroDivisor(ds[i])
    THEN CHOOSE i \in 1 .. Len(ds) :
            /\ HasZeroDivisor(ds[i])
            /\ \A j \in 1 .. (i - 1) : ~HasZeroDivisor(ds[j])
    ELSE 0

\* the cores dedicated before the DAG at index i gets its turn
BeforeTurn(ds, i, number_of_cores) ==
    DedicateCores(SubSeq(ds, 1, i - 1), 1,
                  [remaining |-> number_of_cores, short |-> 0])

\* the analysis gets as far as a division by 0: every critical path fits
\* its period and no shortage stopped the loop before that DAG
DividesByZero(ds, number_of_cores) ==
    /\ \A i \in 1 .. Len(ds) : ds[i].critical_path <= ds[i].period
    /\ FirstZeroDivisor(ds) > 0
    /\ BeforeTurn(ds, FirstZeroDivisor(ds), number_of_cores).short = 0

\* the program stopped in the division
DivisionPanic ==
    [kind |-> "Panicked", reason |-> "attempt to divide by zero",
     insufficient_cores |-> 0, high_dedicated_cores |-> 0,
     low_dedicated_cores |-> 0]

\* the saturated core count exceeds every number of remaining cores
SaturatedShortage(ds, number_of_cores) ==
    Unschedulable(HighReason,
        I32Max - BeforeTurn(ds, FirstZeroDivisor(ds), number_of_cores).remaining)

InitFedAny ==
    /\ mode = "fed"
    /\ EdfUnused /\ FpUnused /\ CmpUnused /\ result = "unset" /\ AdjUnused
    /\ MoreUnused
    /\ fed_dag_set \in AnyFedDagSets
    /\ fed_cores \in FedCoreCounts
    /\ fed_result = NoFederateResult

\* main of the federated binary on any input
fed_main_any ==
    /\ mode = "fed" /\ fed_result.kind = "unset"
    /\ IF DividesByZero(fed_dag_set, fed_cores)
       THEN fed_result' \in {DivisionPanic,
                             SaturatedShortage(fed_dag_set, fed_cores)}
       ELSE fed_result' = federated(fed_dag_set, fed_cores)
    /\ UNCHANGED <<mode, edf_vars, fp_vars, cmp_vars, result, fed_dag_set,
                   fed_cores, adj_vars, more_vars>>

SpecFedAny == InitFedAny /\ [][fed_main_any]_vars

C38_MelaniDefinedBelowPeriod ==
    (FedDone /\ \A i \in HighIndices :
                   fed_dag_set[i].critical_path # fed_dag_set[i].period) =>
        /\ fed_result.kind \in {"Schedulable", "Unschedulable"}
        /\ \A i \in HighIndices :
              LET d == fed_dag_set[i]
              IN d.critical_path < d.period =>
                   /\ MinimumCores(d) >= 2
                   /\ MinimumCores(d) * (d.period - d.critical_path)
                         >= d.volume - d.critical_path
                   /\ (MinimumCores(d) - 1) * (d.period - d.critical_path)
                         < d.volume - d.critical_path

(***************************************************************************)
(* The makespan of the list scheduler                                      *)
(***************************************************************************)
\* DAGs that offer more ready nodes than there are cores: three nodes
\* without edges, a source with three successors, three sources with one
\* successor
WideShapes ==
    {[n |-> 3, edges |-> {}],
     [n |-> 4, edges |-> {<<0, 1>>, <<0, 2>>, <<0, 3>>}],
     [n |-> 4, edges |-> {<<0, 3>>, <<1, 3>>, <<2, 3>>}]}

\* FixedPriorityScheduler::new on a wide DAG
InitFPWide ==
    /\ mode = "fp"
    /\ EdfUnused /\ CmpUnused /\ AppUnused
    /\ fp_self_dag \in UNION {FpDagsOfShape(s) : s \in WideShapes}
    /\ fp_dag = fp_self_dag
    /\ fp_pre_done = [v \in Nodes(fp_self_dag) |-> 0]
    /\ \E m \in 1 .. MaxCores : fp_processor = NewProcessor(m)
    /\ fp_ready_queue = <<>>
    /\ fp_time = 0
    /\ fp_node_logs = [v \in Nodes(fp_self_dag) |-> EmptyNodeLog]
    /\ execution_order = <<>>
    /\ finish_nodes = <<>>
    /\ fp_result = <<>>
    /\ fp_pc = "new"

SpecFPWide == (InitFP \/ InitFPWide) /\ [][NextFP]_vars

\* C39: the makespan that schedule() returns on m cores is at least the
\* critical path length, m * makespan is at least the volume and at most
\* volume + (m - 1) * critical path length; on one core the makespan is the
\* volume.
C39_MakespanBounds ==
    (IsFp /\ fp_pc = "return") =>
        LET makespan == fp_result.schedule_length
            m == Cardinality(DOMAIN fp_processor)
            volume == get_volume(fp_self_dag)
            critical_path_length == CriticalPathLength(fp_self_dag)
        IN /\ critical_path_length <= makespan
           /\ volume <= m * makespan
           /\ m * makespan <= volume + (m - 1) * critical_path_length
           /\ m = 1 => makespan = volume

\* two cores and three nodes of one tick without edges: two run side by
\* side, the third after them; the makespan 2 is longer than the critical
\* path 1, and 2 * 2 = 3 + (2 - 1) * 1 meets the upper bound
C39_Witness ==
    /\ IsFp /\ fp_pc = "return"
    /\ Cardinality(DOMAIN fp_processor) = 2
    /\ fp_self_dag.n = 3 /\ fp_self_dag.edges = {}
    /\ get_volume(fp_self_dag) = 3
    /\ CriticalPathLength(fp_self_dag) = 1
    /\ fp_result.schedule_length = 2

=============================================================================
